---------------------------- MODULE Spec2Model ----------------------------
(***************************************************************************)
(* LiftLens ML service: the analysis pipeline of ml/app.                   *)
(*                                                                         *)
(*   analyzer.py          Analyzer.analyze and the engine registry         *)
(*   camera_validator.py  check_side_view, check_front_view                *)
(*   feature_extractor.py _angle, _back_angle, the 3D measures, extract    *)
(*   classifiers/*.py     the twelve rule engines                          *)
(*                                                                         *)
(* Units.  Image and world coordinates are integers counting 1/64 of the   *)
(* source's unit, so every sum, difference and halving the code performs   *)
(* on them is exact in IEEE arithmetic as well as here.  Visibilities are  *)
(* percentages.  Angles are integers counting quarter degrees (Deg), so    *)
(* the left/right averages and the medians of two values stay integral.    *)
(* An absent Optional[float] is None (-1; every angle is >= 0), an absent  *)
(* Optional[str] is NoneStr, an absent frame is NoneFrame.  A Python       *)
(* exception escaping a function is the value Raise.                       *)
(***************************************************************************)
EXTENDS Integers, Sequences, FiniteSets, TLC

VARIABLES
    pc,                   \* control point of the call in progress
    exercise_id,          \* analyze: argument
    skeleton_output_path, \* analyze: argument (NoneStr when not requested)
    classifier,           \* analyze: _CLASSIFIERS.get(exercise_id); predict: the engine called
    landmarks_seq,        \* analyze / validator: the per-frame landmark arrays
    side_err,             \* result of check_side_view
    front_err,            \* result of check_front_view
    camera_error,         \* analyze: the validator's verdict for the required view
    features_seq,         \* analyze: extract_sequence's result; predict: the argument
    stats,                \* the per-aspect statistics predict evaluated, in order
    classification,       \* the ClassificationResult produced
    skeleton_video_path,  \* AnalysisResult.skeleton_video_path
    stages,               \* the stages the call has run so far, in order
    permuted,             \* validator: a permutation of landmarks_seq
    permuted_side_err,    \* result of check_side_view on permuted
    permuted_front_err,   \* result of check_front_view on permuted
    points,               \* _angle: the landmarks <<a, b, c>>
    angle_pair,           \* <<_angle(a, b, c), _angle(c, b, a)>> once computed
    frame_landmarks,      \* extract: argument
    frame_features,       \* extract: result
    calls,                \* the predict calls in progress on the shared engine
    instances,            \* the instance attributes of each engine object
    registry,             \* the module-level dict _CLASSIFIERS
    video_filename,       \* router: video.filename of the upload (NoneStr when missing)
    tmp_path,             \* router: the local tmp_path, once assigned
    files                 \* the temporary files that exist on disk

\* what only the calls made outside analyze use
unit_vars == <<permuted, permuted_side_err, permuted_front_err, points, angle_pair,
               frame_landmarks, frame_features, calls, instances, registry>>

\* the state of the HTTP handler
http_vars == <<video_filename, tmp_path, files>>

vars == <<pc, exercise_id, skeleton_output_path, classifier, landmarks_seq,
          side_err, front_err, camera_error, features_seq, stats,
          classification, skeleton_video_path, stages, unit_vars, http_vars>>

-----------------------------------------------------------------------------
(* Bounds of the model                                                     *)

\* longest run of one landmark frame in a generated video
MaxRun == 5
\* most absent frames appended to a generated video
MaxAbsent == 1
\* longest feature sequence handed directly to an engine
MaxLen == 3
\* largest coordinate of a landmark handed directly to _angle
MaxCoord == 2
\* longest landmark sequence handed directly to extract_sequence
MaxFrames == 2
\* number of predict calls in progress on one engine instance
MaxCalls == 2

-----------------------------------------------------------------------------
(* Python values                                                           *)

None == -1
NoneStr == "None"
NoneFrame == [absent |-> TRUE]
Raise == -2
IndexError == [raised |-> "IndexError"]
NoResult == [overall_score |-> "none", feedback |-> <<>>]

Deg(n) == 4 * n

Abs(n) == IF n < 0 THEN -n ELSE n

Rep(x, n) == [i \in 1..n |-> x]

\* [f(x) for x in s]
Map(F(_), s) == [i \in 1..Len(s) |-> F(s[i])]

\* list.sort / sorted: ascending, by insertion
RECURSIVE Insert(_, _, _)
Insert(LE(_, _), v, s) ==
    IF s = <<>> THEN <<v>>
    ELSE IF LE(v, Head(s)) THEN <<v>> \o s
    ELSE <<Head(s)>> \o Insert(LE, v, Tail(s))

RECURSIVE sorted(_, _)
sorted(LE(_, _), s) ==
    IF s = <<>> THEN <<>> ELSE Insert(LE, Head(s), sorted(LE, Tail(s)))

IntLE(a, b) == a <= b

\* min(list): ValueError on an empty list
min(s) ==
    IF s = <<>> THEN Raise
    ELSE CHOOSE v \in {s[i] : i \in 1..Len(s)} : \A j \in 1..Len(s) : v <= s[j]

\* max(list): ValueError on an empty list
max(s) ==
    IF s = <<>> THEN Raise
    ELSE CHOOSE v \in {s[i] : i \in 1..Len(s)} : \A j \in 1..Len(s) : v >= s[j]

\* statistics.median: StatisticsError on no data; the middle value of the
\* sorted data, or the mean of the two middle values
median(s) ==
    IF s = <<>> THEN Raise
    ELSE LET d == sorted(IntLE, s)
             n == Len(d)
         IN IF n % 2 = 1 THEN d[n \div 2 + 1]
            ELSE (d[n \div 2] + d[n \div 2 + 1]) \div 2

\* list[i] with a 0-based index: IndexError outside the list
index(s, i) == IF i >= 0 /\ i < Len(s) THEN s[i + 1] ELSE Raise

-----------------------------------------------------------------------------
(* pose_estimator.py: landmarks                                            *)

\* LandmarkIndex: the slots of the 33-entry array the pipeline reads
LEFT_SHOULDER == 11
RIGHT_SHOULDER == 12
LEFT_ELBOW == 13
RIGHT_ELBOW == 14
LEFT_WRIST == 15
RIGHT_WRIST == 16
LEFT_HIP == 23
RIGHT_HIP == 24
LEFT_KNEE == 25
RIGHT_KNEE == 26
LEFT_ANKLE == 27
RIGHT_ANKLE == 28

LandmarkIndex ==
    {LEFT_SHOULDER, RIGHT_SHOULDER, LEFT_ELBOW, RIGHT_ELBOW, LEFT_WRIST,
     RIGHT_WRIST, LEFT_HIP, RIGHT_HIP, LEFT_KNEE, RIGHT_KNEE, LEFT_ANKLE,
     RIGHT_ANKLE}

\* Landmark(x, y, z, visibility, wx, wy, wz); z is never read by the pipeline
Landmark(x, y, visibility, wx, wy, wz) ==
    [x |-> x, y |-> y, visibility |-> visibility, wx |-> wx, wy |-> wy, wz |-> wz]

\* process_video appends one Landmark per MediaPipe landmark: a list of
\* `len` entries, of which the model keeps the slots the pipeline reads
LandmarkList(len, at) == [len |-> len, at |-> at]

\* landmarks[i]
lm(frame, i) == frame.at[i]

-----------------------------------------------------------------------------
(* camera_validator.py                                                     *)

\* spread ratios are exact fractions <<numerator, denominator>>
_MAX_SPREAD_RATIO == <<1, 2>>
\* a front threshold of 0.60, above the side threshold
_MIN_FRONT_SPREAD_RATIO_060 == <<3, 5>>
_MIN_FRONT_SPREAD_RATIO == <<1, 2>>
_VISIBILITY_THRESHOLD == 50
_MIN_VALID_FRAMES == 10

MSG_TOO_FEW ==
    "Too few frames with pose detected. Ensure your full body is visible and well-lit."
MSG_NO_BODY ==
    "Could not detect body position. Ensure your full body is visible and well-lit."
MSG_NOT_SIDE ==
    "Camera angle incorrect. Position the camera directly to your side at hip height, perpendicular to your movement direction."
MSG_NOT_FRONT ==
    "Camera angle incorrect. Position the camera directly in front of you, facing your chest, at approximately shoulder height."

RatLE(a, b) == a[1] * b[2] <= b[1] * a[2]
RatLT(a, b) == a[1] * b[2] < b[1] * a[2]

\* a variant of median_ratio that takes the middle of the list as it stands
median_ratio_unsorted(s) ==
    LET n == Len(s)
        a == s[n \div 2]
        b == s[n \div 2 + 1]
    IN IF n % 2 = 1 THEN s[n \div 2 + 1]
       ELSE <<a[1] * b[2] + b[1] * a[2], 2 * a[2] * b[2]>>

\* statistics.median over fractions (never called on an empty list)
median_ratio(s) ==
    LET d == sorted(RatLE, s)
        n == Len(d)
        a == d[n \div 2]
        b == d[n \div 2 + 1]
    IN IF n % 2 = 1 THEN d[n \div 2 + 1]
       ELSE <<a[1] * b[2] + b[1] * a[2], 2 * a[2] * b[2]>>

Min4(a, b, c, d) ==
    LET S == {a, b, c, d} IN CHOOSE v \in S : \A w \in S : v <= w

\* valid = [f for f in landmarks_seq if f is not None]
valid_frames(seq) == SelectSeq(seq, LAMBDA f : f # NoneFrame)

\* a variant of frame_ratio whose spread is the shoulder-to-hip distance in x
frame_ratio_shoulder_hip(frame) ==
    LET lsh == lm(frame, LEFT_SHOULDER)
        rsh == lm(frame, RIGHT_SHOULDER)
        lhi == lm(frame, LEFT_HIP)
        rhi == lm(frame, RIGHT_HIP)
        spread == Abs(lsh.x - lhi.x)
        torso_h2 == Abs((lsh.y + rsh.y) - (lhi.y + rhi.y))
    IN IF Min4(lsh.visibility, rsh.visibility, lhi.visibility, rhi.visibility)
            < _VISIBILITY_THRESHOLD
       THEN <<>>
       ELSE IF torso_h2 > 0 THEN <<2 * spread, torso_h2>> ELSE <<>>

\* the body of the validator's loop: the frame's ratio, or <<>> when the
\* frame is skipped (low visibility, or torso_h = 0).  torso_h is kept
\* doubled: spread / torso_h = 2 * spread / |(lsh.y + rsh.y) - (lhi.y + rhi.y)|
frame_ratio(frame) ==
    LET lsh == lm(frame, LEFT_SHOULDER)
        rsh == lm(frame, RIGHT_SHOULDER)
        lhi == lm(frame, LEFT_HIP)
        rhi == lm(frame, RIGHT_HIP)
        spread == Abs(lsh.x - rsh.x)
        torso_h2 == Abs((lsh.y + rsh.y) - (lhi.y + rhi.y))
    IN IF Min4(lsh.visibility, rsh.visibility, lhi.visibility, rhi.visibility)
            < _VISIBILITY_THRESHOLD
       THEN <<>>
       ELSE IF torso_h2 > 0 THEN <<2 * spread, torso_h2>> ELSE <<>>

\* ratios, after the loop
spread_ratios(valid) ==
    SelectSeq(Map(frame_ratio, valid), LAMBDA r : r # <<>>)

\* a variant of check_side_view that counts only the frames that gave a ratio
check_side_view_counting_ratios(seq) ==
    LET valid == valid_frames(seq)
        ratios == spread_ratios(valid)
    IN IF Len(ratios) < _MIN_VALID_FRAMES THEN MSG_TOO_FEW
       ELSE IF ~RatLT(median_ratio(ratios), _MAX_SPREAD_RATIO) THEN MSG_NOT_SIDE
       ELSE NoneStr

check_side_view(seq) ==
    LET valid == valid_frames(seq)
        ratios == spread_ratios(valid)
    IN IF Len(valid) < _MIN_VALID_FRAMES THEN MSG_TOO_FEW
       ELSE IF ratios = <<>> THEN MSG_NO_BODY
       ELSE IF ~RatLT(median_ratio(ratios), _MAX_SPREAD_RATIO) THEN MSG_NOT_SIDE
       ELSE NoneStr

check_front_view(seq) ==
    LET valid == valid_frames(seq)
        ratios == spread_ratios(valid)
    IN IF Len(valid) < _MIN_VALID_FRAMES THEN MSG_TOO_FEW
       ELSE IF ratios = <<>> THEN MSG_NO_BODY
       ELSE IF RatLT(median_ratio(ratios), _MIN_FRONT_SPREAD_RATIO) THEN MSG_NOT_FRONT
       ELSE NoneStr

-----------------------------------------------------------------------------
(* feature_extractor.py                                                    *)

VISIBILITY_THRESHOLD == 50

\* 1000 * tan(k degrees), k = 1..89
TanTable ==
    <<
      17, 35, 52, 70, 87, 105, 123, 141, 158, 176,
      194, 213, 231, 249, 268, 287, 306, 325, 344, 364,
      384, 404, 424, 445, 466, 488, 510, 532, 554, 577,
      601, 625, 649, 675, 700, 727, 754, 781, 810, 839,
      869, 900, 933, 966, 1000, 1036, 1072, 1111, 1150, 1192,
      1235, 1280, 1327, 1376, 1428, 1483, 1540, 1600, 1664, 1732,
      1804, 1881, 1963, 2050, 2145, 2246, 2356, 2475, 2605, 2747,
      2904, 3078, 3271, 3487, 3732, 4011, 4331, 4705, 5145, 5671,
      6314, 7115, 8144, 9514, 11430, 14301, 19081, 28636, 57290
    >>

\* degrees(atan2(cross, dot)) for cross >= 0 and (cross, dot) # (0, 0), cut
\* down to whole degrees, in quarter degrees.  For two image-plane vectors
\* u and v, arccos(u.v / (|u||v|)) = atan2(|u x v|, u.v): this is the value
\* of np.degrees(np.arccos(np.clip(cosine, -1, 1))) to within one degree.
degrees_atan2(cross, dot) ==
    IF dot > 0
    THEN Deg(Cardinality({k \in 1..89 : cross * 1000 >= TanTable[k] * dot}))
    ELSE IF dot = 0 THEN Deg(90)
    ELSE Deg(180 - (1 + Cardinality({k \in 1..89 : cross * 1000 > TanTable[k] * (-dot)})))
         + (IF cross = 0 THEN Deg(1) ELSE 0)

Min2(a, b) == IF a <= b THEN a ELSE b
Min3(a, b, c) == Min2(a, Min2(b, c))

\* a variant of _elbow_flare_3d that is absent only when the elbow coincides
\* with the shoulder in all three world coordinates
_elbow_flare_3d_any_axis(shoulder, elbow) ==
    LET lateral == Abs(elbow.wx - shoulder.wx)
        forward == Abs(elbow.wz - shoulder.wz)
    IN IF Min2(shoulder.visibility, elbow.visibility) < VISIBILITY_THRESHOLD THEN None
       ELSE IF lateral = 0 /\ forward = 0 /\ elbow.wy = shoulder.wy THEN None
       ELSE degrees_atan2(lateral, forward)

_elbow_flare_3d(shoulder, elbow) ==
    LET lateral == Abs(elbow.wx - shoulder.wx)
        forward == Abs(elbow.wz - shoulder.wz)
    IN IF Min2(shoulder.visibility, elbow.visibility) < VISIBILITY_THRESHOLD THEN None
       ELSE IF lateral = 0 /\ forward = 0 THEN None
       ELSE degrees_atan2(lateral, forward)

_back_lean_3d(shoulder, hip) ==
    LET dy == hip.wy - shoulder.wy
        dz == hip.wz - shoulder.wz
    IN IF Min2(shoulder.visibility, hip.visibility) < VISIBILITY_THRESHOLD THEN None
       ELSE IF dy * dy + dz * dz = 0 THEN None
       ELSE degrees_atan2(Abs(dz), dy)

\* a variant of _angle that measures the angle at a, between ab and ac
_angle_at_a(a, b, c) ==
    LET ab == <<b.x - a.x, b.y - a.y>>
        ac == <<c.x - a.x, c.y - a.y>>
    IN IF Min3(a.visibility, b.visibility, c.visibility) < VISIBILITY_THRESHOLD THEN None
       ELSE IF ab = <<0, 0>> \/ ac = <<0, 0>> THEN None
       ELSE degrees_atan2(Abs(ab[1] * ac[2] - ab[2] * ac[1]),
                          ab[1] * ac[1] + ab[2] * ac[2])

\* a variant of _angle that drops a landmark at the threshold itself
_angle_above_threshold(a, b, c) ==
    LET ba == <<a.x - b.x, a.y - b.y>>
        bc == <<c.x - b.x, c.y - b.y>>
    IN IF Min3(a.visibility, b.visibility, c.visibility) <= VISIBILITY_THRESHOLD THEN None
       ELSE IF ba = <<0, 0>> \/ bc = <<0, 0>> THEN None
       ELSE degrees_atan2(Abs(ba[1] * bc[2] - ba[2] * bc[1]),
                          ba[1] * bc[1] + ba[2] * bc[2])

_angle(a, b, c) ==
    LET ba == <<a.x - b.x, a.y - b.y>>
        bc == <<c.x - b.x, c.y - b.y>>
        norm_ba2 == ba[1] * ba[1] + ba[2] * ba[2]
        norm_bc2 == bc[1] * bc[1] + bc[2] * bc[2]
    IN IF Min3(a.visibility, b.visibility, c.visibility) < VISIBILITY_THRESHOLD THEN None
       ELSE IF norm_ba2 = 0 \/ norm_bc2 = 0 THEN None
       ELSE degrees_atan2(Abs(ba[1] * bc[2] - ba[2] * bc[1]),
                          ba[1] * bc[1] + ba[2] * bc[2])

_back_angle(shoulder, hip) ==
    LET dx == hip.x - shoulder.x
        dy == hip.y - shoulder.y
    IN IF Min2(shoulder.visibility, hip.visibility) < VISIBILITY_THRESHOLD THEN None
       ELSE IF dx * dx + dy * dy = 0 THEN None
       ELSE degrees_atan2(Abs(dx), dy)

FrameFeatures(kl, kr, hl, hr, el, er, sl, sr, back, flare, lean) ==
    [knee_angle_left |-> kl, knee_angle_right |-> kr,
     hip_angle_left |-> hl, hip_angle_right |-> hr,
     elbow_angle_left |-> el, elbow_angle_right |-> er,
     shoulder_angle_left |-> sl, shoulder_angle_right |-> sr,
     back_angle |-> back, elbow_flare_angle_3d |-> flare, back_lean_3d |-> lean]

\* FeatureExtractor.extract.  landmarks[L.RIGHT_ANKLE] is the highest slot
\* read: a shorter list is an IndexError.  The generated frames keep the sum
\* of each left/right coordinate pair even, so the midpoints are exact.
extract(landmarks) ==
    IF landmarks.len <= RIGHT_ANKLE THEN IndexError
    ELSE
    LET lsh == lm(landmarks, LEFT_SHOULDER)
        rsh == lm(landmarks, RIGHT_SHOULDER)
        lel == lm(landmarks, LEFT_ELBOW)
        rel == lm(landmarks, RIGHT_ELBOW)
        lwr == lm(landmarks, LEFT_WRIST)
        rwr == lm(landmarks, RIGHT_WRIST)
        lhi == lm(landmarks, LEFT_HIP)
        rhi == lm(landmarks, RIGHT_HIP)
        lkn == lm(landmarks, LEFT_KNEE)
        rkn == lm(landmarks, RIGHT_KNEE)
        lan == lm(landmarks, LEFT_ANKLE)
        ran == lm(landmarks, RIGHT_ANKLE)
        mid_shoulder == Landmark((lsh.x + rsh.x) \div 2, (lsh.y + rsh.y) \div 2,
                                 Min2(lsh.visibility, rsh.visibility), 0, 0, 0)
        mid_hip == Landmark((lhi.x + rhi.x) \div 2, (lhi.y + rhi.y) \div 2,
                            Min2(lhi.visibility, rhi.visibility), 0, 0, 0)
        mid_shoulder_w == Landmark(0, 0, Min2(lsh.visibility, rsh.visibility),
                                   (lsh.wx + rsh.wx) \div 2, (lsh.wy + rsh.wy) \div 2,
                                   (lsh.wz + rsh.wz) \div 2)
        mid_hip_w == Landmark(0, 0, Min2(lhi.visibility, rhi.visibility),
                              (lhi.wx + rhi.wx) \div 2, (lhi.wy + rhi.wy) \div 2,
                              (lhi.wz + rhi.wz) \div 2)
        flare_l == _elbow_flare_3d(lsh, lel)
        flare_r == _elbow_flare_3d(rsh, rel)
        elbow_flare == IF flare_l # None /\ flare_r # None THEN (flare_l + flare_r) \div 2
                       ELSE IF flare_l # None THEN flare_l
                       ELSE IF flare_r # None THEN flare_r
                       ELSE None
    IN FrameFeatures(_angle(lhi, lkn, lan), _angle(rhi, rkn, ran),
                     _angle(lsh, lhi, lkn), _angle(rsh, rhi, rkn),
                     _angle(lsh, lel, lwr), _angle(rsh, rel, rwr),
                     _angle(lhi, lsh, lel), _angle(rhi, rsh, rel),
                     _back_angle(mid_shoulder, mid_hip),
                     elbow_flare,
                     _back_lean_3d(mid_shoulder_w, mid_hip_w))

\* a variant of extract_sequence that leaves out the frames with no pose
extract_sequence_skipping_absent(frames_landmarks) ==
    LET present == SelectSeq(frames_landmarks, LAMBDA f : f # NoneFrame)
    IN IF \E i \in 1..Len(present) : present[i].len <= RIGHT_ANKLE
       THEN <<IndexError>>
       ELSE [i \in 1..Len(present) |-> extract(present[i])]

\* FeatureExtractor.extract_sequence: an exception of extract escapes it
extract_sequence(frames_landmarks) ==
    LET out == [i \in 1..Len(frames_landmarks) |->
                   IF frames_landmarks[i] # NoneFrame
                   THEN extract(frames_landmarks[i]) ELSE NoneFrame]
    IN IF \E i \in 1..Len(frames_landmarks) :
             frames_landmarks[i] # NoneFrame /\ frames_landmarks[i].len <= RIGHT_ANKLE
       THEN <<IndexError>>
       ELSE out

-----------------------------------------------------------------------------
(* classifiers/base.py and the helpers every engine file repeats verbatim  *)

FeedbackItem(aspect, status, message) ==
    [aspect |-> aspect, status |-> status, message |-> message]

ClassificationResult(overall_score, feedback) ==
    [overall_score |-> overall_score, feedback |-> feedback]

\* a message is the tuple of its literal parts and interpolated values
Msg(text) == <<text>>

\* f"{v:.0f}": round to whole degrees, halves to even
fmt0(v) ==
    LET q == v \div 4
        r == v % 4
    IN IF r < 2 THEN q
       ELSE IF r > 2 THEN q + 1
       ELSE IF q % 2 = 0 THEN q ELSE q + 1

\* f"{pre}{v:.0f}{post}"
MsgV(pre, v, post) == <<pre, fmt0(v), post>>

\* frames = [f for f in features if f is not None]
present(features) == SelectSeq(features, LAMBDA f : f # NoneFrame)

\* [v for v in s if v is not None]
not_none(s) == SelectSeq(s, LAMBDA v : v # None)

\* the left/right average of _avg_knee, _avg_elbow, _avg_shoulder, _avg_hip
_avg(l, r) ==
    IF l # None /\ r # None THEN (l + r) \div 2
    ELSE IF l # None THEN l ELSE r

_avg_knee(f) == _avg(f.knee_angle_left, f.knee_angle_right)
_avg_elbow(f) == _avg(f.elbow_angle_left, f.elbow_angle_right)
_avg_shoulder(f) == _avg(f.shoulder_angle_left, f.shoulder_angle_right)
_avg_hip(f) == _avg(f.hip_angle_left, f.hip_angle_right)

back_angle_of(f) == f.back_angle
back_lean_3d_of(f) == f.back_lean_3d
elbow_flare_angle_3d_of(f) == f.elbow_flare_angle_3d

\* a variant of _overall_score in which a warning outranks an error
_overall_score_warning_first(items) ==
    LET statuses == {items[i].status : i \in 1..Len(items)}
    IN IF "warning" \in statuses THEN "needs_improvement"
       ELSE IF "error" \in statuses THEN "poor"
       ELSE "good"

\* _overall_score, the same function in each of the twelve engine files
_overall_score(items) ==
    LET statuses == {items[i].status : i \in 1..Len(items)}
    IN IF "error" \in statuses THEN "poor"
       ELSE IF "warning" \in statuses THEN "needs_improvement"
       ELSE "good"

\* what a predict call leaves behind: the statistics it evaluated (stats[i]
\* is the argument of the i-th feedback item) and the ClassificationResult
\* it returned
RaisedResult == ClassificationResult("<exception>", <<>>)

\* the early return every predict makes when no frame is present
NoPose ==
    [stats |-> <<>>,
     result |-> ClassificationResult("poor",
                   <<FeedbackItem("general", "error", Msg("No pose detected in video."))>>)]

\* the tail of every predict: the statistics were evaluated (an exception in
\* one of them escapes predict), the items built, the label aggregated
Evaluated(st, feedback) ==
    [stats |-> st,
     result |-> IF \E i \in 1..Len(st) : st[i] = Raise THEN RaisedResult
                ELSE ClassificationResult(_overall_score(feedback), feedback)]

\* a variant of int_090 that rounds up: ceil(n * 0.90)
int_090_ceil(n) == (n * 90 + 99) \div 100

\* int(n * 0.90): exact for the list lengths the model reaches
int_090(n) == (n * 90) \div 100
\* int(n * 0.85)
int_085(n) == (n * 85) \div 100

\* a variant of lower_is_better that passes an absent statistic as ok
lower_is_better_absent_ok(aspect, v, good, warn, m_none, m_ok, m_warn, m_err) ==
    IF v = None THEN FeedbackItem(aspect, "ok", Msg(m_ok))
    ELSE IF v <= good THEN FeedbackItem(aspect, "ok", Msg(m_ok))
    ELSE IF v <= warn THEN FeedbackItem(aspect, "warning", MsgV(m_warn, v, ")"))
    ELSE FeedbackItem(aspect, "error", MsgV(m_err, v, ")"))

\* the two-tier rule shared by the lower-is-better aspects:
\*   None -> error; v <= good -> ok; v <= warn -> warning; else error
lower_is_better(aspect, v, good, warn, m_none, m_ok, m_warn, m_err) ==
    IF v = None THEN FeedbackItem(aspect, "error", Msg(m_none))
    ELSE IF v <= good THEN FeedbackItem(aspect, "ok", Msg(m_ok))
    ELSE IF v <= warn THEN FeedbackItem(aspect, "warning", MsgV(m_warn, v, ")"))
    ELSE FeedbackItem(aspect, "error", MsgV(m_err, v, ")"))

\* a variant of higher_is_better whose comparisons are strict
higher_is_better_strict(aspect, v, good, warn, m_none, m_ok, m_warn, m_err) ==
    IF v = None THEN FeedbackItem(aspect, "error", Msg(m_none))
    ELSE IF v > good THEN FeedbackItem(aspect, "ok", Msg(m_ok))
    ELSE IF v > warn THEN FeedbackItem(aspect, "warning", MsgV(m_warn, v, ")"))
    ELSE FeedbackItem(aspect, "error", MsgV(m_err, v, ")"))

\* the two-tier rule shared by the higher-is-better aspects:
\*   None -> error; v >= good -> ok; v >= warn -> warning; else error
higher_is_better(aspect, v, good, warn, m_none, m_ok, m_warn, m_err) ==
    IF v = None THEN FeedbackItem(aspect, "error", Msg(m_none))
    ELSE IF v >= good THEN FeedbackItem(aspect, "ok", Msg(m_ok))
    ELSE IF v >= warn THEN FeedbackItem(aspect, "warning", MsgV(m_warn, v, ")"))
    ELSE FeedbackItem(aspect, "error", MsgV(m_err, v, ")"))

-----------------------------------------------------------------------------
(* classifiers/squat.py                                                    *)

squat_min_knee_angle(frames) ==
    LET _BOTTOM_KNEE_MIN == Deg(45)
        angles == SelectSeq(Map(_avg_knee, frames),
                            LAMBDA k : k # None /\ k >= _BOTTOM_KNEE_MIN)
    IN IF angles # <<>> THEN min(angles) ELSE None

\* a variant of _bottom_phase_back_angle that takes the median back angle
\* of the whole video
squat_bottom_phase_back_angle_whole_video(frames) ==
    LET all_back == not_none(Map(back_angle_of, frames))
    IN IF all_back = <<>> THEN None ELSE median(all_back)

squat_bottom_phase_back_angle(frames) ==
    LET _BOTTOM_KNEE_MIN == Deg(45)
        _BOTTOM_KNEE_MAX == Deg(100)
        bottom_back ==
            Map(back_angle_of,
                SelectSeq(frames,
                          LAMBDA f : /\ _avg_knee(f) # None
                                     /\ _BOTTOM_KNEE_MIN <= _avg_knee(f)
                                     /\ _avg_knee(f) <= _BOTTOM_KNEE_MAX
                                     /\ f.back_angle # None))
        all_back == sorted(IntLE, not_none(Map(back_angle_of, frames)))
    IN IF bottom_back # <<>> THEN median(bottom_back)
       ELSE IF all_back = <<>> THEN None
       ELSE index(all_back, int_090(Len(all_back)))

squat_depth_feedback(min_knee) ==
    LET DEPTH_GOOD == Deg(90)
        DEPTH_WARN == Deg(110)
    IN lower_is_better("depth", min_knee, DEPTH_GOOD, DEPTH_WARN,
           "Could not measure squat depth - knees not visible.",
           "Good squat depth.", "Partial depth (", "Insufficient depth (")

squat_back_feedback(bottom_back) ==
    LET BACK_GOOD == Deg(50)
        BACK_WARN == Deg(65)
    IN lower_is_better("back_position", bottom_back, BACK_GOOD, BACK_WARN,
           "Could not measure back angle - shoulders/hips not visible.",
           "Good back position.", "Slight forward lean (", "Excessive forward lean (")

SquatClassifier_predict(features) ==
    LET frames == present(features)
        min_knee == squat_min_knee_angle(frames)
        bottom_back == squat_bottom_phase_back_angle(frames)
    IN IF frames = <<>> THEN NoPose
       ELSE Evaluated(<<min_knee, bottom_back>>,
                      <<squat_depth_feedback(min_knee), squat_back_feedback(bottom_back)>>)

-----------------------------------------------------------------------------
(* classifiers/lunge.py                                                    *)

lunge_deeper_knee(f) ==
    LET _BOTH_BENT_THRESHOLD == Deg(160)
        la == f.knee_angle_left
        ra == f.knee_angle_right
    IN IF la = None \/ ra = None THEN None
       ELSE IF la >= _BOTH_BENT_THRESHOLD \/ ra >= _BOTH_BENT_THRESHOLD THEN None
       ELSE Min2(la, ra)

lunge_min_depth_angle(frames) ==
    LET _BOTTOM_KNEE_MIN == Deg(45)
        angles == SelectSeq(Map(lunge_deeper_knee, frames),
                            LAMBDA k : k # None /\ k >= _BOTTOM_KNEE_MIN)
    IN IF angles # <<>> THEN min(angles) ELSE None

lunge_bottom_phase_back_angle(frames) ==
    LET _BOTTOM_KNEE_MIN == Deg(45)
        _BOTTOM_KNEE_MAX == Deg(100)
        bottom_back ==
            Map(back_angle_of,
                SelectSeq(frames,
                          LAMBDA f : /\ lunge_deeper_knee(f) # None
                                     /\ _BOTTOM_KNEE_MIN <= lunge_deeper_knee(f)
                                     /\ lunge_deeper_knee(f) <= _BOTTOM_KNEE_MAX
                                     /\ f.back_angle # None))
        all_back == sorted(IntLE, not_none(Map(back_angle_of, frames)))
    IN IF bottom_back # <<>> THEN median(bottom_back)
       ELSE IF all_back = <<>> THEN None
       ELSE index(all_back, int_090(Len(all_back)))

lunge_depth_feedback(min_knee) ==
    LET DEPTH_GOOD == Deg(90)
        DEPTH_WARN == Deg(110)
    IN lower_is_better("depth", min_knee, DEPTH_GOOD, DEPTH_WARN,
           "Could not measure lunge depth - knees not visible.",
           "Good lunge depth.", "Partial depth (", "Insufficient depth (")

lunge_back_feedback(bottom_back) ==
    LET BACK_GOOD == Deg(50)
        BACK_WARN == Deg(65)
    IN lower_is_better("back_position", bottom_back, BACK_GOOD, BACK_WARN,
           "Could not measure back angle - shoulders/hips not visible.",
           "Good torso position.", "Slight forward lean (", "Excessive forward lean (")

LungeClassifier_predict(features) ==
    LET frames == present(features)
        min_knee == lunge_min_depth_angle(frames)
        bottom_back == lunge_bottom_phase_back_angle(frames)
    IN IF frames = <<>> THEN NoPose
       ELSE Evaluated(<<min_knee, bottom_back>>,
                      <<lunge_depth_feedback(min_knee), lunge_back_feedback(bottom_back)>>)

-----------------------------------------------------------------------------
(* classifiers/push_up.py                                                  *)

\* abs(180.0 - h)
push_up_deviation(h) == Abs(Deg(180) - h)

push_up_push_phase_alignment(frames) ==
    LET _PUSH_ELBOW_MAX == Deg(150)
        deviations ==
            Map(LAMBDA f : push_up_deviation(_avg_hip(f)),
                SelectSeq(frames,
                          LAMBDA f : /\ _avg_elbow(f) # None
                                     /\ _avg_elbow(f) < _PUSH_ELBOW_MAX
                                     /\ _avg_hip(f) # None))
        all_dev == Map(push_up_deviation, not_none(Map(_avg_hip, frames)))
    IN IF deviations # <<>> THEN median(deviations)
       ELSE IF all_dev # <<>> THEN median(all_dev) ELSE None

\* a variant of _min_elbow_angle that skips the frames without a hip angle
push_up_min_elbow_angle_with_hips(frames) ==
    LET angles == not_none(Map(_avg_elbow,
                               SelectSeq(frames, LAMBDA f : _avg_hip(f) # None)))
    IN IF angles # <<>> THEN min(angles) ELSE None

push_up_min_elbow_angle(frames) ==
    LET angles == not_none(Map(_avg_elbow, frames))
    IN IF angles # <<>> THEN min(angles) ELSE None

push_up_alignment_feedback(deviation) ==
    LET ALIGNMENT_GOOD == Deg(15)
        ALIGNMENT_WARN == Deg(30)
    IN lower_is_better("body_alignment", deviation, ALIGNMENT_GOOD, ALIGNMENT_WARN,
           "Could not measure body alignment - hips not visible.",
           "Good body alignment - straight from head to heels.",
           "Body not fully straight (", "Significant hip sag or pike (")

push_up_depth_feedback(min_elbow) ==
    LET DEPTH_GOOD == Deg(100)
        DEPTH_WARN == Deg(115)
    IN lower_is_better("depth", min_elbow, DEPTH_GOOD, DEPTH_WARN,
           "Could not measure push-up depth - elbows not visible.",
           "Good depth - chest close to the floor.",
           "Partial depth (", "Insufficient depth (")

PushUpClassifier_predict(features) ==
    LET frames == present(features)
        alignment == push_up_push_phase_alignment(frames)
        min_elbow == push_up_min_elbow_angle(frames)
    IN IF frames = <<>> THEN NoPose
       ELSE Evaluated(<<alignment, min_elbow>>,
                      <<push_up_alignment_feedback(alignment),
                        push_up_depth_feedback(min_elbow)>>)

-----------------------------------------------------------------------------
(* classifiers/pull_up.py                                                  *)

pull_up_min_elbow_angle(frames) ==
    LET _ELBOW_ARTIFACT_MIN == Deg(45)
        angles == SelectSeq(Map(_avg_elbow, frames),
                            LAMBDA e : e # None /\ e >= _ELBOW_ARTIFACT_MIN)
    IN IF angles # <<>> THEN min(angles) ELSE None

pull_up_max_elbow_angle(frames) ==
    LET angles == not_none(Map(_avg_elbow, frames))
    IN IF angles # <<>> THEN max(angles) ELSE None

pull_up_depth_feedback(min_elbow) ==
    LET DEPTH_GOOD == Deg(90)
        DEPTH_WARN == Deg(120)
    IN lower_is_better("range_of_motion", min_elbow, DEPTH_GOOD, DEPTH_WARN,
           "Could not measure elbow angle - arms not visible.",
           "Good range of motion - full height achieved.",
           "Partial rep (", "Insufficient height (")

pull_up_extension_feedback(max_elbow) ==
    LET EXTENSION_GOOD == Deg(160)
        EXTENSION_WARN == Deg(140)
    IN higher_is_better("full_extension", max_elbow, EXTENSION_GOOD, EXTENSION_WARN,
           "Could not measure arm extension - arms not visible.",
           "Good dead hang - arms fully extended between reps.",
           "Incomplete extension (", "Arms not fully extended (")

PullUpClassifier_predict(features) ==
    LET frames == present(features)
        min_elbow == pull_up_min_elbow_angle(frames)
        max_elbow == pull_up_max_elbow_angle(frames)
    IN IF frames = <<>> THEN NoPose
       ELSE Evaluated(<<min_elbow, max_elbow>>,
                      <<pull_up_depth_feedback(min_elbow),
                        pull_up_extension_feedback(max_elbow)>>)

-----------------------------------------------------------------------------
(* classifiers/overhead_press.py                                           *)

overhead_press_press_phase_frames(frames) ==
    LET _PRESS_SHOULDER_MIN == Deg(60)
        press == SelectSeq(frames,
                           LAMBDA f : /\ _avg_shoulder(f) # None
                                      /\ _avg_shoulder(f) > _PRESS_SHOULDER_MIN)
    IN IF press # <<>> THEN press ELSE frames

overhead_press_press_phase_flare(frames) ==
    LET press == overhead_press_press_phase_frames(frames)
        vals == not_none(Map(elbow_flare_angle_3d_of, press))
    IN IF vals # <<>> THEN median(vals) ELSE None

overhead_press_press_phase_back_lean(frames) ==
    LET press == overhead_press_press_phase_frames(frames)
        vals == not_none(Map(back_lean_3d_of, press))
    IN IF vals # <<>> THEN median(vals) ELSE None

overhead_press_max_shoulder_angle(frames) ==
    LET vals == not_none(Map(_avg_shoulder, frames))
    IN IF vals # <<>> THEN max(vals) ELSE None

overhead_press_elbow_feedback(flare) ==
    LET FLARE_GOOD == Deg(60)
        FLARE_WARN == Deg(75)
    IN lower_is_better("elbow_position", flare, FLARE_GOOD, FLARE_WARN,
           "Could not measure elbow position - arms not visible or no 3D data.",
           "Good elbow position - tracking forward through the press.",
           "Slight elbow flare (", "Excessive elbow flare (")

overhead_press_lockout_feedback(max_shoulder) ==
    LET LOCKOUT_GOOD == Deg(160)
        LOCKOUT_WARN == Deg(145)
    IN higher_is_better("lockout", max_shoulder, LOCKOUT_GOOD, LOCKOUT_WARN,
           "Could not measure lockout - shoulders not visible.",
           "Good lockout - arms fully extended overhead.",
           "Incomplete lockout (", "No lockout detected (")

overhead_press_back_feedback(lean) ==
    LET BACK_GOOD == Deg(15)
        BACK_WARN == Deg(25)
    IN lower_is_better("back_position", lean, BACK_GOOD, BACK_WARN,
           "Could not measure back lean - shoulders/hips not visible or no 3D data.",
           "Good upright torso position.",
           "Slight back lean (", "Excessive back lean (")

OverheadPressClassifier_predict(features) ==
    LET frames == present(features)
        flare == overhead_press_press_phase_flare(frames)
        lean == overhead_press_press_phase_back_lean(frames)
        max_shoulder == overhead_press_max_shoulder_angle(frames)
    IN IF frames = <<>> THEN NoPose
       ELSE Evaluated(<<flare, max_shoulder, lean>>,
                      <<overhead_press_elbow_feedback(flare),
                        overhead_press_lockout_feedback(max_shoulder),
                        overhead_press_back_feedback(lean)>>)

-----------------------------------------------------------------------------
(* classifiers/lateral_raise.py                                            *)

\* a variant of _raise_phase_frames that asks for the fraction only
lateral_raise_raise_phase_frames_fraction_only(frames) ==
    LET raised == SelectSeq(frames,
                            LAMBDA f : /\ _avg_shoulder(f) # None
                                       /\ _avg_shoulder(f) > Deg(40))
    IN IF Len(raised) * 100 >= Len(frames) * 5 THEN raised ELSE <<>>

\* min_frames = max(10, len(frames) * 0.05); len(raised) >= min_frames
lateral_raise_raise_phase_frames(frames) ==
    LET _RAISE_SHOULDER_MIN == Deg(40)
        raised == SelectSeq(frames,
                            LAMBDA f : /\ _avg_shoulder(f) # None
                                       /\ _avg_shoulder(f) > _RAISE_SHOULDER_MIN)
    IN IF Len(raised) >= 10 /\ Len(raised) * 100 >= Len(frames) * 5
       THEN raised ELSE <<>>

lateral_raise_peak_shoulder_angle(frames) ==
    LET vals == not_none(Map(_avg_shoulder, frames))
    IN IF vals # <<>> THEN max(vals) ELSE None

lateral_raise_body_swing(frames) ==
    LET raise_frames == lateral_raise_raise_phase_frames(frames)
        source == IF raise_frames # <<>> THEN raise_frames ELSE frames
        vals == not_none(Map(back_lean_3d_of, source))
    IN IF vals # <<>> THEN median(vals) ELSE None

\* a variant of _raise_elbow that falls back to all frames
lateral_raise_raise_elbow_all_frames(frames) ==
    LET raise_frames == lateral_raise_raise_phase_frames(frames)
        source == IF raise_frames # <<>> THEN raise_frames ELSE frames
        vals == not_none(Map(_avg_elbow, source))
    IN IF vals = <<>> THEN None
       ELSE IF median(vals) >= Deg(90) THEN median(vals) ELSE None

lateral_raise_raise_elbow(frames) ==
    LET raise_frames == lateral_raise_raise_phase_frames(frames)
        vals == not_none(Map(_avg_elbow, raise_frames))
        med == median(vals)
    IN IF raise_frames = <<>> THEN None
       ELSE IF vals = <<>> THEN None
       ELSE IF med >= Deg(90) THEN med ELSE None

lateral_raise_height_feedback(peak) ==
    LET HEIGHT_GOOD == Deg(80)
        HEIGHT_WARN == Deg(60)
    IN higher_is_better("arm_height", peak, HEIGHT_GOOD, HEIGHT_WARN,
           "Could not measure arm height - shoulders/elbows not visible.",
           "Good raise height - arms reaching shoulder level.",
           "Partial range (", "Arms too low (")

lateral_raise_swing_feedback(swing) ==
    LET SWING_GOOD == Deg(15)
        SWING_WARN == Deg(22)
    IN lower_is_better("body_swing", swing, SWING_GOOD, SWING_WARN,
           "Could not measure body swing - hips/shoulders not visible or no 3D data.",
           "Good torso stability - minimal body swing.",
           "Slight body lean (", "Excessive body swing (")

lateral_raise_elbow_feedback(elbow) ==
    LET ELBOW_BENT_WARN == Deg(135)
    IN IF elbow = None
       THEN FeedbackItem("elbow_position", "warning",
                Msg("Could not assess elbow angle from this camera angle. Position the camera directly in front of you for accurate elbow tracking."))
       ELSE IF elbow >= ELBOW_BENT_WARN
       THEN FeedbackItem("elbow_position", "ok",
                Msg("Good elbow position - slight bend maintained."))
       ELSE FeedbackItem("elbow_position", "warning", MsgV("Elbows too bent (", elbow, ")"))

LateralRaiseClassifier_predict(features) ==
    LET frames == present(features)
        peak == lateral_raise_peak_shoulder_angle(frames)
        swing == lateral_raise_body_swing(frames)
        elbow == lateral_raise_raise_elbow(frames)
    IN IF frames = <<>> THEN NoPose
       ELSE Evaluated(<<peak, swing, elbow>>,
                      <<lateral_raise_height_feedback(peak),
                        lateral_raise_swing_feedback(swing),
                        lateral_raise_elbow_feedback(elbow)>>)

-----------------------------------------------------------------------------
(* classifiers/upright_row.py                                              *)

\* min_frames = max(5, len(frames) * 0.05); len(pulled) >= min_frames
upright_row_pull_phase_frames(frames) ==
    LET _PULL_ANGLE_MIN == Deg(25)
        pulled == SelectSeq(frames,
                            LAMBDA f : /\ _avg_shoulder(f) # None
                                       /\ _avg_shoulder(f) > _PULL_ANGLE_MIN)
    IN IF Len(pulled) >= 5 /\ Len(pulled) * 100 >= Len(frames) * 5
       THEN pulled ELSE <<>>

upright_row_peak_height(frames) ==
    LET pull == upright_row_pull_phase_frames(frames)
        source == IF pull # <<>> THEN pull ELSE frames
        vals == sorted(IntLE, not_none(Map(_avg_shoulder, source)))
    IN IF vals = <<>> THEN None
       ELSE index(vals, int_085(Len(vals)))

upright_row_elbow_bend(frames) ==
    LET pull == upright_row_pull_phase_frames(frames)
        vals == SelectSeq(Map(_avg_elbow, pull), LAMBDA e : e # None /\ e >= Deg(30))
    IN IF pull = <<>> THEN None
       ELSE IF vals # <<>> THEN min(vals) ELSE None

upright_row_body_swing(frames) ==
    LET pull == upright_row_pull_phase_frames(frames)
        source == IF pull # <<>> THEN pull ELSE frames
        vals == not_none(Map(back_lean_3d_of, source))
    IN IF vals # <<>> THEN median(vals) ELSE None

upright_row_height_feedback(peak) ==
    LET PEAK_GOOD_MIN == Deg(70)
        PEAK_GOOD_MAX == Deg(120)
        PEAK_WARN_MIN == Deg(40)
    IN IF peak = None
       THEN FeedbackItem("pull_height", "error",
                Msg("Could not detect pull height - shoulders not visible."))
       ELSE IF peak > PEAK_GOOD_MAX
       THEN FeedbackItem("pull_height", "warning", MsgV("Elbows raised too high (", peak, ")"))
       ELSE IF peak >= PEAK_GOOD_MIN
       THEN FeedbackItem("pull_height", "ok",
                Msg("Good pull height - elbows reaching shoulder level."))
       ELSE IF peak >= PEAK_WARN_MIN
       THEN FeedbackItem("pull_height", "warning",
                MsgV("Bar not coming up high enough (", peak, ")"))
       ELSE FeedbackItem("pull_height", "error", MsgV("Very low pull (", peak, ")"))

upright_row_elbow_feedback(elbow) ==
    LET ELBOW_GOOD == Deg(100)
        ELBOW_WARN == Deg(130)
    IN IF elbow = None
       THEN FeedbackItem("elbow_bend", "warning",
                Msg("Could not assess elbow bend - arms not visible from this angle."))
       ELSE IF elbow <= ELBOW_GOOD
       THEN FeedbackItem("elbow_bend", "ok",
                Msg("Good elbow bend - arms properly bent at the top of the pull."))
       ELSE IF elbow <= ELBOW_WARN
       THEN FeedbackItem("elbow_bend", "warning", MsgV("Elbows not bending enough (", elbow, ")"))
       ELSE FeedbackItem("elbow_bend", "error", MsgV("Arms barely bent (", elbow, ")"))

upright_row_swing_feedback(swing) ==
    LET SWING_GOOD == Deg(15)
        SWING_WARN == Deg(25)
    IN IF swing = None
       THEN FeedbackItem("body_swing", "warning",
                Msg("Could not assess body swing - position the camera directly in front of you."))
       ELSE IF swing <= SWING_GOOD
       THEN FeedbackItem("body_swing", "ok", Msg("Good control - no excessive body swing."))
       ELSE IF swing <= SWING_WARN
       THEN FeedbackItem("body_swing", "warning", MsgV("Slight body lean detected (", swing, ")"))
       ELSE FeedbackItem("body_swing", "error", MsgV("Significant torso lean (", swing, ")"))

UprightRowClassifier_predict(features) ==
    LET frames == present(features)
        peak == upright_row_peak_height(frames)
        elbow == upright_row_elbow_bend(frames)
        swing == upright_row_body_swing(frames)
    IN IF frames = <<>> THEN NoPose
       ELSE Evaluated(<<peak, elbow, swing>>,
                      <<upright_row_height_feedback(peak),
                        upright_row_elbow_feedback(elbow),
                        upright_row_swing_feedback(swing)>>)

-----------------------------------------------------------------------------
(* classifiers/deadlift.py                                                 *)

\* a variant of _hinge_phase_frames without the fallback to all frames
deadlift_hinge_phase_frames_no_fallback(frames) ==
    SelectSeq(frames, LAMBDA f : f.back_angle # None /\ f.back_angle > Deg(35))

deadlift_hinge_phase_frames(frames) ==
    LET _HINGE_BACK_MIN == Deg(35)
        hinge == SelectSeq(frames,
                           LAMBDA f : f.back_angle # None /\ f.back_angle > _HINGE_BACK_MIN)
    IN IF hinge # <<>> THEN hinge ELSE frames

deadlift_min_hinge_knee(frames) ==
    LET _MIN_PLAUSIBLE_KNEE == Deg(60)
        hinge == deadlift_hinge_phase_frames(frames)
        vals == SelectSeq(Map(_avg_knee, hinge),
                          LAMBDA k : k # None /\ k >= _MIN_PLAUSIBLE_KNEE)
    IN IF vals # <<>> THEN min(vals) ELSE None

\* a variant of _post_bottom_frames that keeps the frames before the peak
deadlift_post_bottom_frames_whole(frames) == frames

\* max(indexed, key=...) returns the first entry with the largest back angle
deadlift_post_bottom_frames(frames) ==
    LET indexed == {i \in 1..Len(frames) : frames[i].back_angle # None}
        max_idx == CHOOSE i \in indexed :
                       /\ \A j \in indexed : frames[j].back_angle <= frames[i].back_angle
                       /\ \A j \in indexed : j < i => frames[j].back_angle < frames[i].back_angle
    IN IF indexed = {} THEN frames
       ELSE SubSeq(frames, max_idx, Len(frames))

deadlift_lockout_back_angle(frames) ==
    LET post == deadlift_post_bottom_frames(frames)
        vals == not_none(Map(back_angle_of, post))
    IN IF vals # <<>> THEN min(vals) ELSE None

deadlift_setup_feedback(min_knee) ==
    LET STIFF_LEG_WARN == Deg(145)
    IN IF min_knee = None
       THEN FeedbackItem("setup", "error",
                Msg("Could not measure setup - knees not visible during the pull."))
       ELSE IF min_knee > STIFF_LEG_WARN
       THEN FeedbackItem("setup", "warning", MsgV("Knees too straight at setup (", min_knee, ")"))
       ELSE FeedbackItem("setup", "ok",
                Msg("Good starting position - knees appropriately bent at setup."))

deadlift_lockout_feedback(lockout) ==
    LET LOCKOUT_GOOD == Deg(10)
        LOCKOUT_WARN == Deg(20)
    IN lower_is_better("lockout", lockout, LOCKOUT_GOOD, LOCKOUT_WARN,
           "Could not measure lockout - hips/shoulders not visible.",
           "Good lockout - hips fully extended at the top.",
           "Incomplete lockout (", "No lockout achieved (")

\* a variant of DeadliftClassifier.predict without the early return
DeadliftClassifier_predict_unguarded(features) ==
    LET frames == present(features)
        min_knee == deadlift_min_hinge_knee(frames)
        lockout == deadlift_lockout_back_angle(frames)
    IN Evaluated(<<min_knee, lockout>>,
                 <<deadlift_setup_feedback(min_knee), deadlift_lockout_feedback(lockout)>>)

DeadliftClassifier_predict(features) ==
    LET frames == present(features)
        min_knee == deadlift_min_hinge_knee(frames)
        lockout == deadlift_lockout_back_angle(frames)
    IN IF frames = <<>> THEN NoPose
       ELSE Evaluated(<<min_knee, lockout>>,
                      <<deadlift_setup_feedback(min_knee),
                        deadlift_lockout_feedback(lockout)>>)

-----------------------------------------------------------------------------
(* classifiers/bench_press.py and classifiers/incline_bench_press.py       *)
(* _body_position, _min_elbow, _max_elbow, _depth_feedback and             *)
(* _lockout_feedback are the same in both files up to message wording.     *)

bench_body_position(frames) ==
    LET vals == not_none(Map(back_angle_of, frames))
    IN IF vals # <<>> THEN median(vals) ELSE None

bench_min_elbow(frames) ==
    LET _MIN_PLAUSIBLE_ELBOW == Deg(30)
        vals == SelectSeq(Map(_avg_elbow, frames),
                          LAMBDA e : e # None /\ e >= _MIN_PLAUSIBLE_ELBOW)
    IN IF vals # <<>> THEN min(vals) ELSE None

bench_max_elbow(frames) ==
    LET _MIN_PLAUSIBLE_ELBOW == Deg(30)
        vals == SelectSeq(Map(_avg_elbow, frames),
                          LAMBDA e : e # None /\ e >= _MIN_PLAUSIBLE_ELBOW)
    IN IF vals # <<>> THEN max(vals) ELSE None

bench_press_position_feedback(pos) ==
    LET BP_FLAT_GOOD == Deg(70)
        BP_FLAT_WARN == Deg(50)
    IN IF pos = None
       THEN FeedbackItem("body_position", "error",
                Msg("Could not detect body position - ensure your full body is visible."))
       ELSE IF pos > Deg(100)
       THEN FeedbackItem("body_position", "error",
                Msg("Could not reliably read body position from this camera angle. Film from the side of the bench for accurate analysis."))
       ELSE IF pos >= BP_FLAT_GOOD
       THEN FeedbackItem("body_position", "ok",
                Msg("Good setup - body correctly horizontal on the bench."))
       ELSE IF pos >= BP_FLAT_WARN
       THEN FeedbackItem("body_position", "warning", MsgV("Body too elevated (", pos, ")"))
       ELSE FeedbackItem("body_position", "error",
                MsgV("Body position not suitable for flat bench press (", pos, ")"))

incline_bench_press_position_feedback(pos) ==
    LET IBP_POS_MIN == Deg(35)
        IBP_POS_MAX == Deg(70)
    IN IF pos = None
       THEN FeedbackItem("body_position", "error",
                Msg("Could not detect body position - ensure your full body is visible."))
       ELSE IF IBP_POS_MIN <= pos /\ pos <= IBP_POS_MAX
       THEN FeedbackItem("body_position", "ok",
                Msg("Good bench angle - torso at the correct incline for upper chest activation."))
       ELSE IF pos > IBP_POS_MAX
       THEN FeedbackItem("body_position", "warning", MsgV("Bench angle too flat (", pos, ")"))
       ELSE FeedbackItem("body_position", "warning", MsgV("Bench angle too steep (", pos, ")"))

bench_depth_feedback(min_el) ==
    LET DEPTH_GOOD == Deg(100)
        DEPTH_WARN == Deg(125)
    IN lower_is_better("depth", min_el, DEPTH_GOOD, DEPTH_WARN,
           "Could not measure elbow angle - arms not visible.",
           "Good depth - weight reaching the chest on each rep.",
           "Partial range of motion (", "Very incomplete range of motion (")

bench_lockout_feedback(max_el) ==
    LET LOCKOUT_GOOD == Deg(155)
        LOCKOUT_WARN == Deg(135)
    IN higher_is_better("lockout", max_el, LOCKOUT_GOOD, LOCKOUT_WARN,
           "Could not measure lockout - arms not visible.",
           "Good lockout - elbows fully extended at the top.",
           "Incomplete lockout (", "Elbows significantly bent at the top (")

BenchPressClassifier_predict(features) ==
    LET frames == present(features)
        pos == bench_body_position(frames)
        min_el == bench_min_elbow(frames)
        max_el == bench_max_elbow(frames)
    IN IF frames = <<>> THEN NoPose
       ELSE Evaluated(<<pos, min_el, max_el>>,
                      <<bench_press_position_feedback(pos),
                        bench_depth_feedback(min_el),
                        bench_lockout_feedback(max_el)>>)

InclineBenchPressClassifier_predict(features) ==
    LET frames == present(features)
        pos == bench_body_position(frames)
        min_el == bench_min_elbow(frames)
        max_el == bench_max_elbow(frames)
    IN IF frames = <<>> THEN NoPose
       ELSE Evaluated(<<pos, min_el, max_el>>,
                      <<incline_bench_press_position_feedback(pos),
                        bench_depth_feedback(min_el),
                        bench_lockout_feedback(max_el)>>)

-----------------------------------------------------------------------------
(* classifiers/romanian_deadlift.py                                        *)

romanian_deadlift_hinge_phase_frames(frames) ==
    LET _HINGE_BACK_MIN == Deg(20)
        hinge == SelectSeq(frames,
                           LAMBDA f : f.back_angle # None /\ f.back_angle > _HINGE_BACK_MIN)
    IN IF hinge # <<>> THEN hinge ELSE frames

romanian_deadlift_max_back_angle(frames) ==
    LET vals == not_none(Map(back_angle_of, frames))
    IN IF vals # <<>> THEN max(vals) ELSE None

romanian_deadlift_knee_at_hinge(frames) ==
    LET hinge == romanian_deadlift_hinge_phase_frames(frames)
        vals == not_none(Map(_avg_knee, hinge))
    IN IF vals # <<>> THEN median(vals) ELSE None

romanian_deadlift_depth_feedback(peak) ==
    LET DEPTH_GOOD == Deg(45)
        DEPTH_WARN == Deg(30)
    IN higher_is_better("hinge_depth", peak, DEPTH_GOOD, DEPTH_WARN,
           "Could not measure hinge depth - hips/shoulders not visible.",
           "Good hip hinge depth - hamstrings fully loaded.",
           "Shallow hinge (", "Insufficient hip hinge (")

romanian_deadlift_knee_feedback(knee) ==
    LET KNEE_STRAIGHT_WARN == Deg(168)
        KNEE_BENT_WARN == Deg(130)
    IN IF knee = None
       THEN FeedbackItem("knee_position", "error",
                Msg("Could not measure knee angle - knees not visible."))
       ELSE IF knee > KNEE_STRAIGHT_WARN
       THEN FeedbackItem("knee_position", "warning", MsgV("Knees too straight (", knee, ")"))
       ELSE IF knee < KNEE_BENT_WARN
       THEN FeedbackItem("knee_position", "warning", MsgV("Knees too bent (", knee, ")"))
       ELSE FeedbackItem("knee_position", "ok",
                Msg("Good knee position - soft bend maintained throughout the hinge."))

RomanianDeadliftClassifier_predict(features) ==
    LET frames == present(features)
        peak == romanian_deadlift_max_back_angle(frames)
        knee == romanian_deadlift_knee_at_hinge(frames)
    IN IF frames = <<>> THEN NoPose
       ELSE Evaluated(<<peak, knee>>,
                      <<romanian_deadlift_depth_feedback(peak),
                        romanian_deadlift_knee_feedback(knee)>>)

-----------------------------------------------------------------------------
(* classifiers/barbell_row.py                                              *)

barbell_row_row_phase_frames(frames) ==
    LET _ROW_BACK_MIN == Deg(30)
        row == SelectSeq(frames,
                         LAMBDA f : f.back_angle # None /\ f.back_angle > _ROW_BACK_MIN)
    IN IF row # <<>> THEN row ELSE frames

barbell_row_torso_angle(frames) ==
    LET row == barbell_row_row_phase_frames(frames)
        vals == not_none(Map(back_angle_of, row))
    IN IF vals # <<>> THEN median(vals) ELSE None

barbell_row_min_elbow_angle(frames) ==
    LET _MIN_PLAUSIBLE_ELBOW == Deg(30)
        vals == SelectSeq(Map(_avg_elbow, frames),
                          LAMBDA e : e # None /\ e >= _MIN_PLAUSIBLE_ELBOW)
    IN IF vals # <<>> THEN min(vals) ELSE None

barbell_row_torso_feedback(torso) ==
    LET BACK_GOOD == Deg(55)
        BACK_WARN == Deg(30)
    IN higher_is_better("back_position", torso, BACK_GOOD, BACK_WARN,
           "Could not measure torso angle - hips/shoulders not visible.",
           "Good torso angle - properly hinged forward throughout the set.",
           "Torso too upright (", "Not enough forward lean (")

barbell_row_rom_feedback(min_elbow) ==
    LET ROM_GOOD == Deg(100)
        ROM_WARN == Deg(130)
    IN lower_is_better("pull_rom", min_elbow, ROM_GOOD, ROM_WARN,
           "Could not measure pull range - elbows not visible.",
           "Good pull - bar reaching the body with elbows fully bent.",
           "Partial range of motion (", "Very incomplete pull (")

BarbellRowClassifier_predict(features) ==
    LET frames == present(features)
        torso == barbell_row_torso_angle(frames)
        min_elbow == barbell_row_min_elbow_angle(frames)
    IN IF frames = <<>> THEN NoPose
       ELSE Evaluated(<<torso, min_elbow>>,
                      <<barbell_row_torso_feedback(torso),
                        barbell_row_rom_feedback(min_elbow)>>)

-----------------------------------------------------------------------------
(* exercises.py and analyzer.py                                            *)

\* EXERCISES[id]["camera_view"]
EXERCISES ==
    [bench_press |-> "side", incline_bench_press |-> "side", push_up |-> "side",
     overhead_press |-> "any", lateral_raise |-> "any", arnold_press |-> "front",
     squat |-> "side", lunge |-> "side", bulgarian_split_squat |-> "side",
     romanian_deadlift |-> "side", pull_up |-> "any", barbell_row |-> "side",
     deadlift |-> "side"]

\* the engine registry: exercise id -> the engine instance (by class)
_CLASSIFIERS ==
    [squat |-> "SquatClassifier", push_up |-> "PushUpClassifier",
     lunge |-> "LungeClassifier", pull_up |-> "PullUpClassifier",
     overhead_press |-> "OverheadPressClassifier"]

\* the twelve BaseClassifier subclasses of classifiers/
Classifiers ==
    {"SquatClassifier", "LungeClassifier", "PushUpClassifier", "PullUpClassifier",
     "BenchPressClassifier", "InclineBenchPressClassifier", "OverheadPressClassifier",
     "LateralRaiseClassifier", "UprightRowClassifier", "BarbellRowClassifier",
     "DeadliftClassifier", "RomanianDeadliftClassifier"}

\* classifier.predict(features): dispatch on the instance's class
predict(c, features) ==
    CASE c = "SquatClassifier" -> SquatClassifier_predict(features)
      [] c = "LungeClassifier" -> LungeClassifier_predict(features)
      [] c = "PushUpClassifier" -> PushUpClassifier_predict(features)
      [] c = "PullUpClassifier" -> PullUpClassifier_predict(features)
      [] c = "BenchPressClassifier" -> BenchPressClassifier_predict(features)
      [] c = "InclineBenchPressClassifier" -> InclineBenchPressClassifier_predict(features)
      [] c = "OverheadPressClassifier" -> OverheadPressClassifier_predict(features)
      [] c = "LateralRaiseClassifier" -> LateralRaiseClassifier_predict(features)
      [] c = "UprightRowClassifier" -> UprightRowClassifier_predict(features)
      [] c = "BarbellRowClassifier" -> BarbellRowClassifier_predict(features)
      [] c = "DeadliftClassifier" -> DeadliftClassifier_predict(features)
      [] c = "RomanianDeadliftClassifier" -> RomanianDeadliftClassifier_predict(features)

\* a variant of the lookup that falls back to the squat engine
classifiers_get_default(id) ==
    IF id \in DOMAIN _CLASSIFIERS THEN _CLASSIFIERS[id] ELSE "SquatClassifier"

\* _CLASSIFIERS.get(exercise_id)
classifiers_get(id) ==
    IF id \in DOMAIN _CLASSIFIERS THEN _CLASSIFIERS[id] ELSE NoneStr

\* EXERCISES.get(exercise_id, {}).get("camera_view", "side")
camera_view_of(id) ==
    IF id \in DOMAIN EXERCISES THEN EXERCISES[id] ELSE "side"

\* the result analyze builds when the registry has no engine
UnsupportedResult(id) ==
    ClassificationResult("poor",
        <<FeedbackItem("general", "error", <<"Exercise is not yet supported: ", id>>)>>)

\* the result analyze builds when the camera check rejects
CameraResult(err) ==
    ClassificationResult("poor", <<FeedbackItem("camera_angle", "error", Msg(err))>>)

\* analyze, lines 45-56: registry lookup; an unknown id returns at once
AnalyzeLookup ==
    /\ pc = "lookup"
    /\ stages' = Append(stages, "lookup")
    /\ classifier' = classifiers_get(exercise_id)
    /\ IF classifier' = NoneStr
       THEN /\ classification' = UnsupportedResult(exercise_id)
            /\ skeleton_video_path' = NoneStr
            /\ pc' = "returned"
       ELSE /\ pc' = "pose"
            /\ UNCHANGED <<classification, skeleton_video_path>>
    /\ UNCHANGED <<exercise_id, skeleton_output_path, landmarks_seq, side_err,
                   front_err, camera_error, features_seq, stats>>
    /\ UNCHANGED unit_vars
    /\ UNCHANGED http_vars

\* a variant of the pose step that goes straight on to feature extraction
AnalyzePose_then_extract(opened, seq) ==
    /\ pc = "pose"
    /\ stages' = Append(stages, "pose")
    /\ IF opened
       THEN landmarks_seq' = seq /\ pc' = "extract"
       ELSE landmarks_seq' = landmarks_seq /\ pc' = "raised"
    /\ UNCHANGED <<exercise_id, skeleton_output_path, classifier, side_err, front_err,
                   camera_error, features_seq, stats, classification,
                   skeleton_video_path>>
    /\ UNCHANGED unit_vars
    /\ UNCHANGED http_vars

\* analyze, line 58: the pose estimator (external) either cannot open the
\* video (ValueError, which escapes analyze) or yields the landmark sequence
AnalyzePose(opened, seq) ==
    /\ pc = "pose"
    /\ stages' = Append(stages, "pose")
    /\ IF opened
       THEN landmarks_seq' = seq /\ pc' = "camera"
       ELSE landmarks_seq' = landmarks_seq /\ pc' = "raised"
    /\ UNCHANGED <<exercise_id, skeleton_output_path, classifier, side_err, front_err,
                   camera_error, features_seq, stats, classification,
                   skeleton_video_path>>
    /\ UNCHANGED unit_vars
    /\ UNCHANGED http_vars

\* a variant of required_view_error in which "any" accepts every sequence
required_view_error_any_accepts(view, side, front) ==
    IF view = "front" THEN front
    ELSE IF view = "any" THEN NoneStr
    ELSE side

\* a variant of required_view_error in which "any" needs both checks to accept
required_view_error_any_needs_both(view, side, front) ==
    IF view = "front" THEN front
    ELSE IF view = "any"
    THEN (IF side = NoneStr /\ front = NoneStr THEN NoneStr
          ELSE IF front # NoneStr THEN front ELSE side)
    ELSE side

\* analyze, lines 60-68: the verdict for the required view
required_view_error(view, side, front) ==
    IF view = "front" THEN front
    ELSE IF view = "any"
    THEN (IF side = NoneStr \/ front = NoneStr THEN NoneStr ELSE front)
    ELSE side

\* analyze, lines 60-77: camera validation; a rejection returns at once
AnalyzeCamera ==
    /\ pc = "camera"
    /\ stages' = Append(stages, "camera")
    /\ LET camera_view == camera_view_of(exercise_id)
       IN /\ side_err' = IF camera_view = "front" THEN side_err
                         ELSE check_side_view(landmarks_seq)
          /\ front_err' = IF camera_view \in {"front", "any"}
                          THEN check_front_view(landmarks_seq) ELSE front_err
          /\ camera_error' = required_view_error(camera_view, side_err', front_err')
    /\ IF camera_error' # NoneStr
       THEN /\ classification' = CameraResult(camera_error')
            /\ skeleton_video_path' = NoneStr
            /\ pc' = "returned"
       ELSE /\ pc' = "extract"
            /\ UNCHANGED <<classification, skeleton_video_path>>
    /\ UNCHANGED <<exercise_id, skeleton_output_path, classifier, landmarks_seq,
                   features_seq, stats>>
    /\ UNCHANGED unit_vars
    /\ UNCHANGED http_vars

\* analyze, line 79
AnalyzeExtract ==
    /\ pc = "extract"
    /\ stages' = Append(stages, "extract")
    /\ LET out == extract_sequence(landmarks_seq)
       IN IF out = <<IndexError>>
          THEN features_seq' = features_seq /\ pc' = "raised"
          ELSE features_seq' = out /\ pc' = "predict"
    /\ UNCHANGED <<exercise_id, skeleton_output_path, classifier, landmarks_seq, side_err,
                   front_err, camera_error, stats, classification, skeleton_video_path>>
    /\ UNCHANGED unit_vars
    /\ UNCHANGED http_vars

\* analyze, line 80
AnalyzePredict ==
    /\ pc = "predict"
    /\ stages' = Append(stages, "predict")
    /\ LET run == predict(classifier, features_seq)
       IN /\ stats' = run.stats
          /\ IF run.result = RaisedResult
             THEN classification' = classification /\ pc' = "raised"
             ELSE classification' = run.result /\ pc' = "render"
    /\ UNCHANGED <<exercise_id, skeleton_output_path, classifier, landmarks_seq, side_err,
                   front_err, camera_error, features_seq, skeleton_video_path>>
    /\ UNCHANGED unit_vars
    /\ UNCHANGED http_vars

\* a variant of the last step that renders whether or not a path was given
AnalyzeRender_unconditional(rendered) ==
    /\ pc = "render"
    /\ stages' = Append(stages, "render")
    /\ IF rendered
       THEN skeleton_video_path' = skeleton_output_path /\ pc' = "returned"
       ELSE skeleton_video_path' = skeleton_video_path /\ pc' = "raised"
    /\ UNCHANGED <<exercise_id, skeleton_output_path, classifier, landmarks_seq, side_err,
                   front_err, camera_error, features_seq, stats, classification>>
    /\ UNCHANGED unit_vars
    /\ UNCHANGED http_vars

\* analyze, lines 82-87: the optional render (external: it completes, or its
\* exception escapes analyze), then the return
AnalyzeRender(rendered) ==
    /\ pc = "render"
    /\ IF skeleton_output_path # NoneStr
       THEN /\ stages' = Append(stages, "render")
            /\ IF rendered
               THEN skeleton_video_path' = skeleton_output_path /\ pc' = "returned"
               ELSE skeleton_video_path' = skeleton_video_path /\ pc' = "raised"
       ELSE /\ stages' = stages
            /\ skeleton_video_path' = NoneStr
            /\ pc' = "returned"
    /\ UNCHANGED <<exercise_id, skeleton_output_path, classifier, landmarks_seq, side_err,
                   front_err, camera_error, features_seq, stats, classification>>
    /\ UNCHANGED unit_vars
    /\ UNCHANGED http_vars

-----------------------------------------------------------------------------
(* Inputs                                                                  *)

\* a 33-landmark frame of a stick figure: shoulders at sh -/+ d (left at
\* +d), elbows at el -/+ d, wrists at wr -/+ d, both hips at hip, both knees
\* at kn, both ankles at an, every landmark with visibility vis.  With
\* world[1] the world coordinates are the image coordinates recentred, the
\* elbows world[2] and the hips world[3] in front of the shoulders; without,
\* they are the Landmark defaults (0).
Body(sh, d, hip, kn, an, el, wr, vis, world) ==
    LET W(x, y, z) == IF world[1] THEN <<x - 32, y - 32, z>> ELSE <<0, 0, 0>>
        L(x, y, z) == Landmark(x, y, vis, W(x, y, z)[1], W(x, y, z)[2], W(x, y, z)[3])
    IN LandmarkList(33,
           (LEFT_SHOULDER :> L(sh[1] + d, sh[2], 0)) @@ (RIGHT_SHOULDER :> L(sh[1] - d, sh[2], 0))
        @@ (LEFT_ELBOW :> L(el[1] + d, el[2], world[2])) @@ (RIGHT_ELBOW :> L(el[1] - d, el[2], world[2]))
        @@ (LEFT_WRIST :> L(wr[1] + d, wr[2], world[2])) @@ (RIGHT_WRIST :> L(wr[1] - d, wr[2], world[2]))
        @@ (LEFT_HIP :> L(hip[1], hip[2], world[3])) @@ (RIGHT_HIP :> L(hip[1], hip[2], world[3]))
        @@ (LEFT_KNEE :> L(kn[1], kn[2], world[3])) @@ (RIGHT_KNEE :> L(kn[1], kn[2], world[3]))
        @@ (LEFT_ANKLE :> L(an[1], an[2], world[3])) @@ (RIGHT_ANKLE :> L(an[1], an[2], world[3])))

\* the landmark frames the pose estimator may report.  Every torso height is
\* 0, 8/64 or 16/64, so each spread ratio is a dyadic fraction and the validator's
\* float division and median are exact.
Poses ==
    << \* 1 standing, seen from the side: ratio 0
       Body(<<32, 16>>, 0, <<32, 32>>, <<32, 44>>, <<32, 56>>, <<32, 24>>, <<32, 32>>,
            100, <<TRUE, 0, 0>>),
       \* 2 squat bottom, seen from the side: knee 90, back 45, ratio 0
       Body(<<40, 20>>, 0, <<24, 36>>, <<40, 36>>, <<40, 52>>, <<40, 28>>, <<40, 36>>,
            100, <<TRUE, 0, 4>>),
       \* 3 arms overhead, seen from the front: ratio 1
       Body(<<32, 16>>, 8, <<32, 32>>, <<32, 44>>, <<32, 56>>, <<32, 8>>, <<32, 0>>,
            100, <<TRUE, 8, 0>>),
       \* 4 quarter turn: ratio exactly 1/2, no world coordinates
       Body(<<32, 16>>, 4, <<32, 32>>, <<36, 44>>, <<32, 56>>, <<40, 16>>, <<40, 8>>,
            100, <<FALSE, 0, 0>>),
       \* 5 standing, landmarks below the visibility threshold
       Body(<<32, 16>>, 0, <<32, 32>>, <<32, 44>>, <<32, 56>>, <<32, 24>>, <<32, 32>>,
            25, <<TRUE, 0, 0>>),
       \* 6 lying on a bench: torso height 0
       Body(<<16, 32>>, 0, <<32, 32>>, <<44, 32>>, <<44, 44>>, <<16, 24>>, <<16, 16>>,
            50, <<TRUE, 0, 0>>),
       \* 7 bent over, seen from the side: torso height 8/64, ratio 0
       Body(<<24, 28>>, 0, <<40, 36>>, <<40, 48>>, <<40, 60>>, <<24, 36>>, <<24, 44>>,
            100, <<TRUE, 0, 0>>) >>

\* the landmark sequences process_video may return: a run of one frame, a
\* run of another, then frames with no pose
Videos ==
    {Rep(Poses[a], na) \o Rep(Poses[b], nb) \o Rep(NoneFrame, nn) :
        a \in 1..Len(Poses), b \in 1..Len(Poses),
        na \in 0..MaxRun, nb \in 0..MaxRun, nn \in 0..MaxAbsent}

\* the exercise ids a caller may pass: the twelve of the rule-engine table,
\* the catalog's other two, and one the catalog does not know
ExerciseIds ==
    {"squat", "lunge", "push_up", "pull_up", "bench_press", "incline_bench_press",
     "overhead_press", "lateral_raise", "upright_row", "barbell_row", "deadlift",
     "romanian_deadlift", "arnold_press", "bulgarian_split_squat", "burpee"}

\* the FrameFeatures records handed directly to an engine, in degrees
FeatureFrames ==
    LET F(kl, kr, hl, hr, el, er, sl, sr, back, flare, lean) ==
            LET D(v) == IF v = None THEN None ELSE Deg(v)
            IN FrameFeatures(D(kl), D(kr), D(hl), D(hr), D(el), D(er), D(sl), D(sr),
                             D(back), D(flare), D(lean))
    IN { \* standing, arms down, no world data
         F(180, 180, 180, 180, 180, 180, 0, 0, 0, None, None),
         \* bottom of the movement, arms bent and raised
         F(90, 90, 170, 170, 90, 90, 170, 170, 45, 30, 10),
         \* one side hidden
         F(100, None, None, 150, None, None, 50, None, None, None, 20),
         \* tracking artifacts: values under the plausibility floors
         F(40, 40, 120, 120, 20, 20, 120, 120, 60, 80, 30),
         \* between the good and the warn boundaries
         F(105, 115, 160, 160, 120, 120, 150, 150, 60, 70, 20),
         \* a detected pose with no usable angle
         F(None, None, None, None, None, None, None, None, None, None, None) }

\* every sequence of at most MaxLen optional FrameFeatures, and the
\* sequences of two runs of MaxRun frames
FeatureSeqs ==
    UNION {[1..n -> FeatureFrames \cup {NoneFrame}] : n \in 0..MaxLen}
    \cup {Rep(f, na) \o Rep(g, nb) :
             f \in FeatureFrames \cup {NoneFrame}, g \in FeatureFrames \cup {NoneFrame},
             na \in {0, MaxRun}, nb \in {0, MaxRun}}

-----------------------------------------------------------------------------
(* Specifications                                                          *)

Unset == "unset"

\* no unit call is in progress; the engines and the registry are as built
\* at import (no engine class defines an attribute)
UnitsIdle ==
    /\ permuted = <<>>
    /\ permuted_side_err = Unset
    /\ permuted_front_err = Unset
    /\ points = <<>>
    /\ angle_pair = <<>>
    /\ frame_landmarks = NoneFrame
    /\ frame_features = NoneFrame
    /\ calls = <<>>
    /\ instances = [c \in Classifiers |-> <<>>]
    /\ registry = _CLASSIFIERS

\* the local tmp_path before its assignment; a path is <<stem, suffix>>
NoPath == <<>>

\* no HTTP request is in progress
HttpIdle ==
    /\ video_filename = NoneStr
    /\ tmp_path = NoPath
    /\ files = {}

\* Spec: one call of Analyzer.analyze(video_path, exercise_id, skeleton_output_path)
Init ==
    /\ pc = "lookup"
    /\ exercise_id \in ExerciseIds
    /\ skeleton_output_path \in {NoneStr, "skeleton.mp4"}
    /\ classifier = Unset
    /\ landmarks_seq = <<>>
    /\ side_err = Unset
    /\ front_err = Unset
    /\ camera_error = Unset
    /\ features_seq = <<>>
    /\ stats = <<>>
    /\ classification = NoResult
    /\ skeleton_video_path = Unset
    /\ stages = <<>>
    /\ UnitsIdle
    /\ HttpIdle

Next ==
    \/ AnalyzeLookup
    \/ \E seq \in Videos : AnalyzePose(TRUE, seq)
    \/ AnalyzePose(FALSE, <<>>)
    \/ AnalyzeCamera
    \/ AnalyzeExtract
    \/ AnalyzePredict
    \/ \E rendered \in BOOLEAN : AnalyzeRender(rendered)

Spec == Init /\ [][Next]_vars

\* SpecCamera: the two validator functions called on one landmark sequence
CheckSideView ==
    /\ pc = "validator"
    /\ side_err = Unset
    /\ side_err' = check_side_view(landmarks_seq)
    /\ UNCHANGED <<pc, exercise_id, skeleton_output_path, classifier, landmarks_seq,
                   front_err, camera_error, features_seq, stats, classification,
                   skeleton_video_path, stages>>
    /\ UNCHANGED unit_vars
    /\ UNCHANGED http_vars

CheckFrontView ==
    /\ pc = "validator"
    /\ front_err = Unset
    /\ front_err' = check_front_view(landmarks_seq)
    /\ UNCHANGED <<pc, exercise_id, skeleton_output_path, classifier, landmarks_seq,
                   side_err, camera_error, features_seq, stats, classification,
                   skeleton_video_path, stages>>
    /\ UNCHANGED unit_vars
    /\ UNCHANGED http_vars

InitCamera ==
    /\ pc = "validator"
    /\ exercise_id = Unset
    /\ skeleton_output_path = NoneStr
    /\ classifier = Unset
    /\ landmarks_seq \in Videos
    /\ side_err = Unset
    /\ front_err = Unset
    /\ camera_error = Unset
    /\ features_seq = <<>>
    /\ stats = <<>>
    /\ classification = NoResult
    /\ skeleton_video_path = Unset
    /\ stages = <<>>
    /\ UnitsIdle
    /\ HttpIdle

NextCamera == CheckSideView \/ CheckFrontView

SpecCamera == InitCamera /\ [][NextCamera]_vars

\* SpecPredict: one call of an engine's predict on a feature sequence
CallPredict ==
    /\ pc = "predict_call"
    /\ LET run == predict(classifier, features_seq)
       IN /\ stats' = run.stats
          /\ IF run.result = RaisedResult
             THEN classification' = classification /\ pc' = "predict_raised"
             ELSE classification' = run.result /\ pc' = "predict_returned"
    /\ UNCHANGED <<exercise_id, skeleton_output_path, classifier, landmarks_seq, side_err,
                   front_err, camera_error, features_seq, skeleton_video_path, stages>>
    /\ UNCHANGED unit_vars
    /\ UNCHANGED http_vars

InitPredict ==
    /\ pc = "predict_call"
    /\ exercise_id = Unset
    /\ skeleton_output_path = NoneStr
    /\ classifier \in Classifiers
    /\ landmarks_seq = <<>>
    /\ side_err = Unset
    /\ front_err = Unset
    /\ camera_error = Unset
    /\ features_seq \in FeatureSeqs
    /\ stats = <<>>
    /\ classification = NoResult
    /\ skeleton_video_path = Unset
    /\ stages = <<>>
    /\ UnitsIdle
    /\ HttpIdle

NextPredict == CallPredict

SpecPredict == InitPredict /\ [][NextPredict]_vars

\* SpecPermute: the validator called on a landmark sequence and on a
\* permutation of it (one transposition of two frames, or the reversal)
LongVideos == {v \in Videos : Len(v) >= 2 * MaxRun - 1}

InitPermute ==
    /\ pc = "permute"
    /\ exercise_id = Unset
    /\ skeleton_output_path = NoneStr
    /\ classifier = Unset
    /\ landmarks_seq \in LongVideos
    /\ side_err = Unset
    /\ front_err = Unset
    /\ camera_error = Unset
    /\ features_seq = <<>>
    /\ stats = <<>>
    /\ classification = NoResult
    /\ skeleton_video_path = Unset
    /\ stages = <<>>
    /\ permuted = <<>>
    /\ permuted_side_err = Unset
    /\ permuted_front_err = Unset
    /\ points = <<>>
    /\ angle_pair = <<>>
    /\ frame_landmarks = NoneFrame
    /\ frame_features = NoneFrame
    /\ calls = <<>>
    /\ instances = [c \in Classifiers |-> <<>>]
    /\ registry = _CLASSIFIERS
    /\ HttpIdle

\* the caller exchanges frames i and j (i = j: the sequence as it is)
SwapFrames(i, j) ==
    /\ pc = "permute"
    /\ permuted' = [k \in 1..Len(landmarks_seq) |->
                       IF k = i THEN landmarks_seq[j]
                       ELSE IF k = j THEN landmarks_seq[i]
                       ELSE landmarks_seq[k]]
    /\ pc' = "validator_pair"
    /\ UNCHANGED <<exercise_id, skeleton_output_path, classifier, landmarks_seq, side_err,
                   front_err, camera_error, features_seq, stats, classification,
                   skeleton_video_path, stages, permuted_side_err, permuted_front_err,
                   points, angle_pair, frame_landmarks, frame_features, calls, instances,
                   registry>>
    /\ UNCHANGED http_vars

\* the caller reverses the frames
ReverseFrames ==
    /\ pc = "permute"
    /\ permuted' = [k \in 1..Len(landmarks_seq) |->
                       landmarks_seq[Len(landmarks_seq) + 1 - k]]
    /\ pc' = "validator_pair"
    /\ UNCHANGED <<exercise_id, skeleton_output_path, classifier, landmarks_seq, side_err,
                   front_err, camera_error, features_seq, stats, classification,
                   skeleton_video_path, stages, permuted_side_err, permuted_front_err,
                   points, angle_pair, frame_landmarks, frame_features, calls, instances,
                   registry>>
    /\ UNCHANGED http_vars

\* check_side_view on both orders
CheckSideViewPair ==
    /\ pc = "validator_pair"
    /\ side_err = Unset
    /\ side_err' = check_side_view(landmarks_seq)
    /\ permuted_side_err' = check_side_view(permuted)
    /\ UNCHANGED <<pc, exercise_id, skeleton_output_path, classifier, landmarks_seq,
                   front_err, camera_error, features_seq, stats, classification,
                   skeleton_video_path, stages, permuted, permuted_front_err,
                   points, angle_pair, frame_landmarks, frame_features, calls, instances,
                   registry>>
    /\ UNCHANGED http_vars

\* check_front_view on both orders
CheckFrontViewPair ==
    /\ pc = "validator_pair"
    /\ front_err = Unset
    /\ front_err' = check_front_view(landmarks_seq)
    /\ permuted_front_err' = check_front_view(permuted)
    /\ UNCHANGED <<pc, exercise_id, skeleton_output_path, classifier, landmarks_seq,
                   side_err, camera_error, features_seq, stats, classification,
                   skeleton_video_path, stages, permuted, permuted_side_err,
                   points, angle_pair, frame_landmarks, frame_features, calls, instances,
                   registry>>
    /\ UNCHANGED http_vars

NextPermute ==
    \/ \E i, j \in 1..Len(landmarks_seq) : SwapFrames(i, j)
    \/ ReverseFrames
    \/ CheckSideViewPair
    \/ CheckFrontViewPair

SpecPermute == InitPermute /\ [][NextPermute]_vars

\* SpecAngle: one call of _angle(a, b, c) and one of _angle(c, b, a)
AngleLandmarks ==
    {Landmark(x, y, v, 0, 0, 0) : x \in 0..MaxCoord, y \in 0..MaxCoord, v \in {49, 50}}

InitAngle ==
    /\ pc = "angle_call"
    /\ exercise_id = Unset
    /\ skeleton_output_path = NoneStr
    /\ classifier = Unset
    /\ landmarks_seq = <<>>
    /\ side_err = Unset
    /\ front_err = Unset
    /\ camera_error = Unset
    /\ features_seq = <<>>
    /\ stats = <<>>
    /\ classification = NoResult
    /\ skeleton_video_path = Unset
    /\ stages = <<>>
    /\ permuted = <<>>
    /\ permuted_side_err = Unset
    /\ permuted_front_err = Unset
    /\ points \in AngleLandmarks \X AngleLandmarks \X AngleLandmarks
    /\ angle_pair = <<>>
    /\ frame_landmarks = NoneFrame
    /\ frame_features = NoneFrame
    /\ calls = <<>>
    /\ instances = [c \in Classifiers |-> <<>>]
    /\ registry = _CLASSIFIERS
    /\ HttpIdle

CallAngle ==
    /\ pc = "angle_call"
    /\ angle_pair' = <<_angle(points[1], points[2], points[3]),
                       _angle(points[3], points[2], points[1])>>
    /\ pc' = "angle_returned"
    /\ UNCHANGED <<exercise_id, skeleton_output_path, classifier, landmarks_seq, side_err,
                   front_err, camera_error, features_seq, stats, classification,
                   skeleton_video_path, stages, permuted, permuted_side_err,
                   permuted_front_err, points, frame_landmarks, frame_features, calls,
                   instances, registry>>
    /\ UNCHANGED http_vars

NextAngle == CallAngle

SpecAngle == InitAngle /\ [][NextAngle]_vars

\* SpecExtract: extract_sequence called on a short sequence of landmark
\* arrays of any length, and extract called on one of its arrays
ArrayLengths == {0, 12, 28, 29, 32, 33, 34}

\* the same landmarks in a list of n entries
Resized(frame, n) == LandmarkList(n, frame.at)

LandmarkArrays ==
    {Resized(Poses[p], n) : p \in {1, 4, 5}, n \in ArrayLengths}

LandmarkSeqs ==
    UNION {[1..n -> LandmarkArrays \cup {NoneFrame}] : n \in 0..MaxFrames}

InitExtract ==
    /\ pc = "extract_call"
    /\ exercise_id = Unset
    /\ skeleton_output_path = NoneStr
    /\ classifier = Unset
    /\ landmarks_seq \in LandmarkSeqs
    /\ side_err = Unset
    /\ front_err = Unset
    /\ camera_error = Unset
    /\ features_seq = <<>>
    /\ stats = <<>>
    /\ classification = NoResult
    /\ skeleton_video_path = Unset
    /\ stages = <<>>
    /\ permuted = <<>>
    /\ permuted_side_err = Unset
    /\ permuted_front_err = Unset
    /\ points = <<>>
    /\ angle_pair = <<>>
    /\ frame_landmarks = NoneFrame
    /\ frame_features = NoneFrame
    /\ calls = <<>>
    /\ instances = [c \in Classifiers |-> <<>>]
    /\ registry = _CLASSIFIERS
    /\ HttpIdle

\* features = FeatureExtractor().extract_sequence(landmarks_seq)
CallExtractSequence ==
    /\ pc = "extract_call"
    /\ LET out == extract_sequence(landmarks_seq)
       IN IF out = <<IndexError>>
          THEN /\ pc' = "extract_sequence_raised"
               /\ UNCHANGED features_seq
          ELSE /\ pc' = "extract_sequence_returned"
               /\ features_seq' = out
    /\ UNCHANGED <<exercise_id, skeleton_output_path, classifier, landmarks_seq, side_err,
                   front_err, camera_error, stats, classification, skeleton_video_path,
                   stages>>
    /\ UNCHANGED unit_vars
    /\ UNCHANGED http_vars

\* features = FeatureExtractor().extract(landmarks_seq[i])
CallExtract(i) ==
    /\ pc = "extract_call"
    /\ landmarks_seq[i] # NoneFrame
    /\ frame_landmarks' = landmarks_seq[i]
    /\ frame_features' = extract(landmarks_seq[i])
    /\ pc' = IF extract(landmarks_seq[i]) = IndexError
             THEN "extract_raised" ELSE "extract_returned"
    /\ UNCHANGED <<exercise_id, skeleton_output_path, classifier, landmarks_seq, side_err,
                   front_err, camera_error, features_seq, stats, classification,
                   skeleton_video_path, stages, permuted, permuted_side_err,
                   permuted_front_err, points, angle_pair, calls, instances, registry>>
    /\ UNCHANGED http_vars

NextExtract ==
    \/ CallExtractSequence
    \/ \E i \in 1..Len(landmarks_seq) : CallExtract(i)

SpecExtract == InitExtract /\ [][NextExtract]_vars

\* SpecConcurrent: MaxCalls threads call predict on one shared engine
\* instance.  A call keeps its non-absent frames in a local variable and
\* computes its result from it; `instances` holds the attributes of the
\* engine objects and `registry` the module-level table.  `overlapped`
\* records that another call was in progress while this one was.
CallInputs == {f \in FeatureSeqs : Len(f) <= 1}

InitConcurrent ==
    /\ pc = "concurrent"
    /\ exercise_id = Unset
    /\ skeleton_output_path = NoneStr
    /\ classifier \in Classifiers
    /\ landmarks_seq = <<>>
    /\ side_err = Unset
    /\ front_err = Unset
    /\ camera_error = Unset
    /\ features_seq = <<>>
    /\ stats = <<>>
    /\ classification = NoResult
    /\ skeleton_video_path = Unset
    /\ stages = <<>>
    /\ permuted = <<>>
    /\ permuted_side_err = Unset
    /\ permuted_front_err = Unset
    /\ points = <<>>
    /\ angle_pair = <<>>
    /\ frame_landmarks = NoneFrame
    /\ frame_features = NoneFrame
    /\ calls \in [1..MaxCalls -> {[features |-> f, at |-> "called", frames |-> <<>>,
                                   result |-> NoResult, overlapped |-> FALSE] :
                                      f \in CallInputs}]
    /\ instances = [c \in Classifiers |-> <<>>]
    /\ registry = _CLASSIFIERS
    /\ HttpIdle

\* a variant of the first step of predict that keeps the frames in an
\* attribute of the engine, where every call in progress reads them
PredictBegin_on_instance(k) ==
    /\ pc = "concurrent"
    /\ calls[k].at = "called"
    /\ instances' = [instances EXCEPT ![classifier] = present(calls[k].features)]
    /\ calls' = [j \in 1..MaxCalls |->
                    IF j = k \/ calls[j].at = "running"
                    THEN [calls[j] EXCEPT !.at = "running",
                                          !.frames = present(calls[k].features),
                                          !.overlapped = \E i \in 1..MaxCalls :
                                                             i # j /\ (i = k \/ calls[i].at = "running")]
                    ELSE calls[j]]
    /\ UNCHANGED <<pc, exercise_id, skeleton_output_path, classifier, landmarks_seq,
                   side_err, front_err, camera_error, features_seq, stats, classification,
                   skeleton_video_path, stages, permuted, permuted_side_err,
                   permuted_front_err, points, angle_pair, frame_landmarks,
                   frame_features, registry>>
    /\ UNCHANGED http_vars

\* predict, first statement: frames = [f for f in features if f is not None]
PredictBegin(k) ==
    /\ pc = "concurrent"
    /\ calls[k].at = "called"
    /\ calls' = [j \in 1..MaxCalls |->
                    IF j = k
                    THEN [calls[j] EXCEPT !.at = "running",
                                          !.frames = present(calls[k].features),
                                          !.overlapped = \E i \in 1..MaxCalls :
                                                             calls[i].at = "running"]
                    ELSE IF calls[j].at = "running"
                    THEN [calls[j] EXCEPT !.overlapped = TRUE]
                    ELSE calls[j]]
    /\ UNCHANGED <<pc, exercise_id, skeleton_output_path, classifier, landmarks_seq,
                   side_err, front_err, camera_error, features_seq, stats, classification,
                   skeleton_video_path, stages, permuted, permuted_side_err,
                   permuted_front_err, points, angle_pair, frame_landmarks,
                   frame_features, instances, registry>>
    /\ UNCHANGED http_vars

\* predict, the rest: the statistics and the result, from the call's frames
PredictFinish(k) ==
    /\ pc = "concurrent"
    /\ calls[k].at = "running"
    /\ calls' = [calls EXCEPT ![k].at = "done",
                              ![k].result = predict(classifier, calls[k].frames).result]
    /\ UNCHANGED <<pc, exercise_id, skeleton_output_path, classifier, landmarks_seq,
                   side_err, front_err, camera_error, features_seq, stats, classification,
                   skeleton_video_path, stages, permuted, permuted_side_err,
                   permuted_front_err, points, angle_pair, frame_landmarks,
                   frame_features, instances, registry>>
    /\ UNCHANGED http_vars

NextConcurrent ==
    \E k \in 1..MaxCalls : PredictBegin(k) \/ PredictFinish(k)

SpecConcurrent == InitConcurrent /\ [][NextConcurrent]_vars

\* SpecScenario: one call of an engine's predict on a feature sequence made
\* for that engine.  BothSides builds a FrameFeatures with equal left and
\* right angles, in degrees.
BothSides(knee, hip, elbow, shoulder, back, flare, lean) ==
    LET D(v) == IF v = None THEN None ELSE Deg(v)
    IN FrameFeatures(D(knee), D(knee), D(hip), D(hip), D(elbow), D(elbow),
                     D(shoulder), D(shoulder), D(back), D(flare), D(lean))

SeqsOver(frames) == UNION {[1..n -> frames] : n \in 0..MaxLen}

\* deadlift: knees at 120 degrees, the back angle varies
DeadliftSeqs ==
    SeqsOver({BothSides(120, 170, 170, 10, b, None, None) : b \in {None, 0, 5, 15, 60}})

\* lateral raise: shoulders absent, at 40 or at 50 degrees (back lean absent,
\* 20 or 10 degrees), elbows absent, at 80 or at 150 degrees; short
\* sequences, two runs around the ten-frame minimum, and ten raised frames
\* among 200 and among 201
LateralRaiseFrames ==
    {BothSides(170, 170, e, sh[1], 0, None, sh[2]) :
        e \in {None, 80, 150}, sh \in {<<None, None>>, <<40, 20>>, <<50, 10>>}}

LateralRaiseSeqs ==
    SeqsOver(LateralRaiseFrames \cup {NoneFrame})
    \cup {Rep(f, na) \o Rep(g, nb) :
             f \in LateralRaiseFrames, g \in LateralRaiseFrames,
             na \in {MaxRun, 2 * MaxRun - 1}, nb \in {1, MaxRun}}
    \cup {Rep(BothSides(170, 170, 150, 50, 0, None, 10), 10)
             \o Rep(BothSides(170, 170, 150, 40, 0, None, None), n) : n \in {190, 191}}

\* squat: knee angle and back angle around the window and the thresholds
SquatFrames ==
    {BothSides(kb[1], 170, 170, 10, kb[2], None, None) :
        kb \in {<<None, 30>>, <<40, 30>>, <<85, 30>>, <<85, None>>, <<85, 50>>,
                <<85, 51>>, <<90, 30>>, <<90, 70>>, <<100, 65>>, <<110, 30>>,
                <<111, 30>>, <<120, 70>>}}

SquatSeqs == SeqsOver(SquatFrames)

\* pull-ups whose elbow angle sits on, just inside and just outside the
\* boundaries of both aspects
PullUpSeqs ==
    SeqsOver({BothSides(170, 170, e, 170, 0, None, None) :
                  e \in {None, 90, 120, 121, 139, 140, 160}})

ScenarioCalls ==
    {<<"DeadliftClassifier", f>> : f \in DeadliftSeqs}
    \cup {<<"SquatClassifier", f>> : f \in SquatSeqs}
    \cup {<<"PullUpClassifier", f>> : f \in PullUpSeqs}
    \cup {<<"LateralRaiseClassifier", f>> : f \in LateralRaiseSeqs}

InitScenario ==
    /\ pc = "predict_call"
    /\ exercise_id = Unset
    /\ skeleton_output_path = NoneStr
    /\ \E call \in ScenarioCalls : classifier = call[1] /\ features_seq = call[2]
    /\ landmarks_seq = <<>>
    /\ side_err = Unset
    /\ front_err = Unset
    /\ camera_error = Unset
    /\ stats = <<>>
    /\ classification = NoResult
    /\ skeleton_video_path = Unset
    /\ stages = <<>>
    /\ UnitsIdle
    /\ HttpIdle

SpecScenario == InitScenario /\ [][NextPredict]_vars

\* SpecLocalized: predict is called on a feature sequence and then on the
\* same sequence with one measurement absent in every frame
Measurements == {"knee", "hip", "elbow", "shoulder", "back", "flare", "lean"}

Without(features, m) ==
    [i \in 1..Len(features) |->
        IF features[i] = NoneFrame THEN NoneFrame
        ELSE CASE m = "knee" -> [features[i] EXCEPT !.knee_angle_left = None,
                                                     !.knee_angle_right = None]
               [] m = "hip" -> [features[i] EXCEPT !.hip_angle_left = None,
                                                   !.hip_angle_right = None]
               [] m = "elbow" -> [features[i] EXCEPT !.elbow_angle_left = None,
                                                     !.elbow_angle_right = None]
               [] m = "shoulder" -> [features[i] EXCEPT !.shoulder_angle_left = None,
                                                        !.shoulder_angle_right = None]
               [] m = "back" -> [features[i] EXCEPT !.back_angle = None]
               [] m = "flare" -> [features[i] EXCEPT !.elbow_flare_angle_3d = None]
               [] m = "lean" -> [features[i] EXCEPT !.back_lean_3d = None]]

CallPredictWithout(m) ==
    /\ pc = "predict_returned"
    /\ present(features_seq) # <<>>
    /\ calls' = <<[features |-> Without(features_seq, m), at |-> "done",
                   frames |-> present(Without(features_seq, m)),
                   result |-> predict(classifier, Without(features_seq, m)).result,
                   overlapped |-> FALSE]>>
    /\ pc' = "predict_compared"
    /\ UNCHANGED <<exercise_id, skeleton_output_path, classifier, landmarks_seq, side_err,
                   front_err, camera_error, features_seq, stats, classification,
                   skeleton_video_path, stages, permuted, permuted_side_err,
                   permuted_front_err, points, angle_pair, frame_landmarks,
                   frame_features, instances, registry>>
    /\ UNCHANGED http_vars

NextLocalized ==
    \/ CallPredict
    \/ \E m \in Measurements : CallPredictWithout(m)

SpecLocalized == InitPredict /\ [][NextLocalized]_vars

\* SpecWorld: extract called on one 33-landmark frame of a standing figure
\* whose world coordinates and confidences vary: the shoulders at `origin`,
\* each elbow and the hips displaced from it along every axis
Vec3Add(a, b) == <<a[1] + b[1], a[2] + b[2], a[3] + b[3]>>

InWorld(l, w, vis) ==
    [l EXCEPT !.wx = w[1], !.wy = w[2], !.wz = w[3], !.visibility = vis]

\* the standing figure with the Landmark defaults for wx, wy, wz
StandingNoWorld ==
    Body(<<32, 16>>, 0, <<32, 32>>, <<32, 44>>, <<32, 56>>, <<32, 24>>, <<32, 32>>,
         100, <<FALSE, 0, 0>>)

WorldBody(origin, el, er, hip, vis) ==
    LET at == StandingNoWorld.at
    IN LandmarkList(33,
           [i \in DOMAIN at |->
               CASE i = LEFT_SHOULDER -> InWorld(at[i], origin, vis[1])
                 [] i = RIGHT_SHOULDER -> InWorld(at[i], origin, 100)
                 [] i = LEFT_ELBOW -> InWorld(at[i], Vec3Add(origin, el), vis[2])
                 [] i = RIGHT_ELBOW -> InWorld(at[i], Vec3Add(origin, er), 100)
                 [] i = LEFT_HIP -> InWorld(at[i], Vec3Add(origin, hip), vis[3])
                 [] i = RIGHT_HIP -> InWorld(at[i], Vec3Add(origin, hip), 100)
                 [] OTHER -> at[i]])

\* elbow relative to shoulder: coincident, straight below, to the side, in
\* front, and diagonal
ElbowOffsets == {<<0, 0, 0>>, <<0, 8, 0>>, <<8, 0, 0>>, <<0, 0, 8>>, <<8, 0, 8>>}

\* hip midpoint relative to shoulder midpoint: coincident, displaced along x
\* only, along y in either direction, leaning, and level with the shoulders
HipOffsets ==
    {<<0, 0, 0>>, <<8, 0, 0>>, <<0, 16, 0>>, <<0, -16, 0>>, <<0, 16, 4>>,
     <<0, -16, 4>>, <<0, 0, 8>>}

WorldArrays ==
    {WorldBody(origin, el, er, hip, vis) :
        origin \in {<<0, 0, 0>>, <<4, 4, 4>>},
        el \in ElbowOffsets, er \in ElbowOffsets, hip \in HipOffsets,
        vis \in {25, 50} \X {25, 50} \X {25, 50}}

InitWorld ==
    /\ pc = "extract_call"
    /\ exercise_id = Unset
    /\ skeleton_output_path = NoneStr
    /\ classifier = Unset
    /\ landmarks_seq \in {<<frame>> : frame \in WorldArrays}
    /\ side_err = Unset
    /\ front_err = Unset
    /\ camera_error = Unset
    /\ features_seq = <<>>
    /\ stats = <<>>
    /\ classification = NoResult
    /\ skeleton_video_path = Unset
    /\ stages = <<>>
    /\ UnitsIdle
    /\ HttpIdle

SpecWorld == InitWorld /\ [][NextExtract]_vars

\* SpecHandler: one POST /analyze request.  The handler validates the form,
\* copies the upload to a temporary file, creates the skeleton directory,
\* calls Analyzer.analyze (the actions of Spec, from "lookup" to "returned"
\* or "raised") inside try/finally, and answers.
_ALLOWED_EXTENSIONS == {".mp4", ".mov", ".avi", ".mkv"}

\* video.filename of the uploads the model sends
Filenames == {NoneStr, "squat.mp4", "SQUAT.MOV", "notes.txt", "squat"}

\* Path(video.filename or "video.mp4").suffix.lower()
suffix_lower(filename) ==
    CASE filename = NoneStr -> ".mp4"
      [] filename = "squat.mp4" -> ".mp4"
      [] filename = "SQUAT.MOV" -> ".mov"
      [] filename = "notes.txt" -> ".txt"
      [] filename = "squat" -> ""

\* tmp.name: a fresh name that ends in the suffix
temp_name(suffix) == <<"tmp", suffix>>

\* the videos the pose estimator reads from the temporary file
HandlerVideos ==
    {Rep(Poses[a], na) \o Rep(Poses[b], nb) :
        a \in 1..Len(Poses), b \in 1..Len(Poses),
        na \in {0, MaxRun}, nb \in {0, MaxRun}}

InitHandler ==
    /\ pc = "request"
    /\ exercise_id \in ExerciseIds
    /\ skeleton_output_path = NoneStr
    /\ classifier = Unset
    /\ landmarks_seq = <<>>
    /\ side_err = Unset
    /\ front_err = Unset
    /\ camera_error = Unset
    /\ features_seq = <<>>
    /\ stats = <<>>
    /\ classification = NoResult
    /\ skeleton_video_path = Unset
    /\ stages = <<>>
    /\ UnitsIdle
    /\ video_filename \in Filenames
    /\ tmp_path = NoPath
    /\ files = {}

\* router.py 39-44: the two HTTPException(400) rejections
HandlerValidate ==
    /\ pc = "request"
    /\ pc' = IF exercise_id \notin DOMAIN EXERCISES THEN "http_400_exercise"
             ELSE IF suffix_lower(video_filename) \notin _ALLOWED_EXTENSIONS
             THEN "http_400_suffix"
             ELSE "tempfile"
    /\ UNCHANGED <<exercise_id, skeleton_output_path, classifier, landmarks_seq, side_err,
                   front_err, camera_error, features_seq, stats, classification,
                   skeleton_video_path, stages>>
    /\ UNCHANGED unit_vars
    /\ UNCHANGED http_vars

\* router.py 46-48: NamedTemporaryFile(delete=False) creates the file; the
\* copy (external I/O) completes and tmp_path is assigned, or its exception
\* leaves the with block, which closes the file and keeps it
HandlerCopy(copied) ==
    /\ pc = "tempfile"
    /\ files' = files \cup {temp_name(suffix_lower(video_filename))}
    /\ IF copied
       THEN tmp_path' = temp_name(suffix_lower(video_filename)) /\ pc' = "mkdir"
       ELSE tmp_path' = tmp_path /\ pc' = "http_500"
    /\ UNCHANGED <<exercise_id, skeleton_output_path, classifier, landmarks_seq, side_err,
                   front_err, camera_error, features_seq, stats, classification,
                   skeleton_video_path, stages, video_filename>>
    /\ UNCHANGED unit_vars

\* router.py 50-54: SKELETON_OUTPUT_DIR.mkdir (external I/O) completes or
\* raises; then skeleton_path is built and the try block calls analyze
HandlerMkdir(made) ==
    /\ pc = "mkdir"
    /\ IF made
       THEN skeleton_output_path' = "skeleton.mp4" /\ pc' = "lookup"
       ELSE skeleton_output_path' = skeleton_output_path /\ pc' = "http_500"
    /\ UNCHANGED <<exercise_id, classifier, landmarks_seq, side_err, front_err,
                   camera_error, features_seq, stats, classification,
                   skeleton_video_path, stages>>
    /\ UNCHANGED unit_vars
    /\ UNCHANGED http_vars

\* router.py 55-67: finally os.unlink(tmp_path); then the response is built
\* from the result, or the exception of analyze propagates
HandlerFinally ==
    /\ pc \in {"returned", "raised"}
    /\ files' = files \ {tmp_path}
    /\ pc' = IF pc = "returned" THEN "http_200" ELSE "http_500"
    /\ UNCHANGED <<exercise_id, skeleton_output_path, classifier, landmarks_seq, side_err,
                   front_err, camera_error, features_seq, stats, classification,
                   skeleton_video_path, stages, video_filename, tmp_path>>
    /\ UNCHANGED unit_vars

NextHandler ==
    \/ HandlerValidate
    \/ \E copied \in BOOLEAN : HandlerCopy(copied)
    \/ \E made \in BOOLEAN : HandlerMkdir(made)
    \/ AnalyzeLookup
    \/ \E seq \in HandlerVideos : AnalyzePose(TRUE, seq)
    \/ AnalyzePose(FALSE, <<>>)
    \/ AnalyzeCamera
    \/ AnalyzeExtract
    \/ AnalyzePredict
    \/ \E rendered \in BOOLEAN : AnalyzeRender(rendered)
    \/ HandlerFinally

SpecHandler == InitHandler /\ [][NextHandler]_vars

\* the handler runs to its response: no step of it waits on anything
SpecHandlerLive == SpecHandler /\ WF_vars(NextHandler)

\* SpecResults: every way a ClassificationResult is produced, by analyze or
\* by a direct call of an engine's predict
InitResults == Init \/ InitPredict

NextResults == Next \/ NextPredict

SpecResults == InitResults /\ [][NextResults]_vars

-----------------------------------------------------------------------------
(* Properties                                                              *)

\* C1: every ClassificationResult produced by an engine's predict or by
\* analyze has the label "poor" if some item is an error, else
\* "needs_improvement" if some item is a warning, else "good"; the label
\* depends on the item severities only.
C1_LabelFollowsSeverities ==
    classification # NoResult =>
        LET severities == {classification.feedback[i].status :
                               i \in 1..Len(classification.feedback)}
        IN classification.overall_score =
               IF "error" \in severities THEN "poor"
               ELSE IF "warning" \in severities THEN "needs_improvement"
               ELSE "good"

\* an engine returned a result holding both a warning and an error
C1_Witness ==
    /\ pc = "predict_returned"
    /\ \E i, j \in 1..Len(classification.feedback) :
          /\ classification.feedback[i].status = "warning"
          /\ classification.feedback[j].status = "error"
    /\ classification.overall_score = "poor"

\* C2: analyze called with an id that has no engine returns normally, with
\* the label "poor", exactly one item (aspect "general", status "error") and
\* no skeleton path; no other stage of the pipeline runs for that call, so
\* no engine runs and no render is requested.
C2_UnsupportedReturnsError ==
    (pc # "lookup" /\ exercise_id \notin DOMAIN _CLASSIFIERS) =>
        /\ pc = "returned"
        /\ classification.overall_score = "poor"
        /\ Len(classification.feedback) = 1
        /\ classification.feedback[1].aspect = "general"
        /\ classification.feedback[1].status = "error"
        /\ skeleton_video_path = NoneStr
        /\ stats = <<>>
        /\ \A i \in 1..Len(stages) : stages[i] \notin {"predict", "render"}

\* an id the catalog does not know, with a skeleton requested, has returned
C2_Witness ==
    /\ pc = "returned"
    /\ exercise_id = "burpee"
    /\ skeleton_output_path # NoneStr
    /\ classification.feedback[1].message = <<"Exercise is not yet supported: ", "burpee">>

\* C3 (as the claim states it): for each of the twelve exercises of the
\* rule-engine table, analyze never returns the "not yet supported" result.
C3_TwelveEnginesRegistered ==
    (exercise_id \in {"squat", "lunge", "push_up", "pull_up", "bench_press",
                      "incline_bench_press", "overhead_press", "lateral_raise",
                      "upright_row", "barbell_row", "deadlift", "romanian_deadlift"}
       /\ pc = "returned") =>
        classification.feedback[1].message[1] # "Exercise is not yet supported: "

\* C4: in every run of analyze the stages occur in the order registry lookup,
\* pose extraction, camera validation, feature extraction, rule engine,
\* optional render, each after the one before it has completed; the
\* unsupported-exercise outcome is decided at the lookup, before pose
\* extraction and camera validation, which then do not run.
C4_StageOrder ==
    LET order == <<"lookup", "pose", "camera", "extract", "predict", "render">>
    IN /\ Len(stages) <= Len(order)
       /\ \A i \in 1..Len(stages) : stages[i] = order[i]
       /\ (pc = "returned" /\ exercise_id \notin DOMAIN _CLASSIFIERS) =>
              stages = <<"lookup">>

\* a run went through all six stages and returned
C4_Witness ==
    /\ pc = "returned"
    /\ stages = <<"lookup", "pose", "camera", "extract", "predict", "render">>

\* C4 as the claim states it: the lookup comes after pose extraction, camera
\* validation and feature extraction.
C4_LookupAfterExtraction ==
    \A i \in 1..Len(stages) :
        stages[i] = "lookup" =>
            \A s \in {"pose", "camera", "extract"} :
                \E j \in 1..(i - 1) : stages[j] = s

\* C5: when the camera check required for the exercise (side, front, or
\* any, where any is rejected only if both checks reject; side when the
\* catalog gives none) rejects the landmark sequence, analyze returns "poor"
\* with exactly one item, aspect "camera_angle", status "error", carrying
\* the validator's message, and no skeleton path; feature extraction, the
\* engine and the renderer do not run, whether or not a skeleton was asked.
C5_CameraRejection ==
    LET view == IF exercise_id \in DOMAIN EXERCISES THEN EXERCISES[exercise_id]
                ELSE "side"
        rejects(err) == err \notin {Unset, NoneStr}
        rejected == IF view = "front" THEN rejects(front_err)
                    ELSE IF view = "any" THEN rejects(side_err) /\ rejects(front_err)
                    ELSE rejects(side_err)
        message == IF view = "side" THEN side_err ELSE front_err
    IN rejected =>
        /\ pc = "returned"
        /\ classification.overall_score = "poor"
        /\ Len(classification.feedback) = 1
        /\ classification.feedback[1].aspect = "camera_angle"
        /\ classification.feedback[1].status = "error"
        /\ classification.feedback[1].message = <<message>>
        /\ skeleton_video_path = NoneStr
        /\ features_seq = <<>>
        /\ stats = <<>>
        /\ \A i \in 1..Len(stages) : stages[i] \notin {"extract", "predict", "render"}

\* an any-view exercise, both checks rejecting, a skeleton requested
C5_Witness ==
    /\ pc = "returned"
    /\ exercise_id = "overhead_press"
    /\ skeleton_output_path # NoneStr
    /\ side_err \notin {Unset, NoneStr}
    /\ front_err \notin {Unset, NoneStr}
    /\ classification.feedback[1].aspect = "camera_angle"

\* C6: for every engine, predict on a sequence whose frames are all absent
\* (the empty sequence included) returns "poor" with exactly one item,
\* aspect "general", status "error" (no pose detected), and evaluates no
\* per-aspect statistic.
C6_AllAbsentIsNoPose ==
    (pc \in {"predict_returned", "predict_raised"}
       /\ \A i \in 1..Len(features_seq) : features_seq[i] = NoneFrame) =>
        /\ pc = "predict_returned"
        /\ classification.overall_score = "poor"
        /\ Len(classification.feedback) = 1
        /\ classification.feedback[1].aspect = "general"
        /\ classification.feedback[1].status = "error"
        /\ classification.feedback[1].message = <<"No pose detected in video.">>
        /\ stats = <<>>

\* the deadlift engine has returned from a non-empty all-absent sequence
C6_Witness ==
    /\ pc = "predict_returned"
    /\ classifier = "DeadliftClassifier"
    /\ Len(features_seq) = 3
    /\ \A i \in 1..Len(features_seq) : features_seq[i] = NoneFrame
    /\ Len(classification.feedback) = 1

\* C7: in every engine, an aspect whose statistic is absent is never given
\* an "ok" item: its item is an "error", except for the lateral raise's
\* elbow_position and the upright row's elbow_bend and body_swing, whose
\* item is a "could not assess" "warning".
C7_AbsentStatisticIsReported ==
    pc = "predict_returned" =>
        \A i \in 1..Len(stats) :
            stats[i] = None =>
                LET item == classification.feedback[i]
                    lenient ==
                        \/ classifier = "LateralRaiseClassifier"
                             /\ item.aspect = "elbow_position"
                        \/ classifier = "UprightRowClassifier"
                             /\ item.aspect \in {"elbow_bend", "body_swing"}
                IN /\ item.status = IF lenient THEN "warning" ELSE "error"
                   /\ Len(item.message) = 1

\* the lateral raise engine reported an absent elbow statistic as a warning
\* and, in the same result, an absent swing statistic as an error
C7_Witness ==
    /\ pc = "predict_returned"
    /\ classifier = "LateralRaiseClassifier"
    /\ Len(stats) = 3
    /\ stats[2] = None
    /\ stats[3] = None
    /\ classification.feedback[2].status = "error"
    /\ classification.feedback[3].status = "warning"

\* C7 as the claim states it: an absent statistic always yields an "error"
\* item.
C7_AbsentStatisticIsError ==
    pc = "predict_returned" =>
        \A i \in 1..Len(stats) :
            stats[i] = None => classification.feedback[i].status = "error"

\* C8: for every sequence of optional FrameFeatures each engine's predict
\* returns a ClassificationResult and never raises: min, max and median are
\* taken over non-empty collections only, and the percentile indices
\* int(n * 0.90) and int(n * 0.85) are valid indices for every n >= 1.
C8_PredictNeverRaises ==
    /\ pc # "predict_raised"
    /\ \A i \in 1..Len(stats) : stats[i] # Raise
    /\ pc = "predict_returned" =>
          /\ classification.overall_score \in {"good", "needs_improvement", "poor"}
          /\ Len(classification.feedback) >= 1
    /\ \A n \in 1..(Len(features_seq) + 1) :
          /\ int_090(n) \in 0..(n - 1)
          /\ int_085(n) \in 0..(n - 1)

\* the squat engine took its back angle at the 90th percentile of ten frames
\* (no frame in the bottom range of the knee)
C8_Witness ==
    /\ pc = "predict_returned"
    /\ classifier = "SquatClassifier"
    /\ Len(features_seq) >= 10
    /\ \A i \in 1..Len(features_seq) :
          /\ features_seq[i] # NoneFrame
          /\ features_seq[i].knee_angle_left > Deg(100)
    /\ Len(stats) = 2
    /\ stats[2] # None

\* C9: check_side_view and check_front_view both reject with the "too few
\* frames" reason whenever fewer than 10 frames of the sequence are
\* non-absent, whatever the landmarks; frames dropped later for low
\* confidence or zero torso height count toward the 10, so with 10
\* non-absent frames neither gives that reason.
C9_TooFewFrames ==
    LET detected == Cardinality({i \in 1..Len(landmarks_seq) :
                                     landmarks_seq[i] # NoneFrame})
        too_few == "Too few frames with pose detected. Ensure your full body is visible and well-lit."
    IN pc = "validator" =>
        /\ side_err # Unset => (side_err = too_few <=> detected < 10)
        /\ front_err # Unset => (front_err = too_few <=> detected < 10)

\* nine detected frames: both checks gave the "too few frames" reason
C9_Witness ==
    /\ pc = "validator"
    /\ Cardinality({i \in 1..Len(landmarks_seq) : landmarks_seq[i] # NoneFrame}) = 9
    /\ side_err = MSG_TOO_FEW
    /\ front_err = MSG_TOO_FEW

\* C10: for a landmark sequence with a median spread ratio (at least 10
\* non-absent frames, at least one with shoulder and hip confidence >= 0.5
\* and a nonzero torso height), check_side_view accepts iff the median is
\* < 0.50 and check_front_view accepts iff it is >= 0.50, so exactly one of
\* the two accepts.
C10_OneViewAccepts ==
    LET detected == SelectSeq(landmarks_seq, LAMBDA f : f # NoneFrame)
        ratios == spread_ratios(detected)
        m == median_ratio(ratios)
        below_half == 2 * m[1] < m[2]
    IN (pc = "validator" /\ Len(detected) >= 10 /\ ratios # <<>>) =>
        /\ side_err # Unset => (side_err = NoneStr <=> below_half)
        /\ front_err # Unset => (front_err = NoneStr <=> ~below_half)
        /\ (side_err # Unset /\ front_err # Unset) =>
              (side_err = NoneStr) # (front_err = NoneStr)

\* a median of exactly one half: the side check rejects, the front accepts
C10_Witness ==
    /\ pc = "validator"
    /\ Len(landmarks_seq) >= 10
    /\ \A i \in 1..Len(landmarks_seq) :
          /\ landmarks_seq[i] # NoneFrame
          /\ frame_ratio(landmarks_seq[i]) = <<16, 32>>
    /\ side_err = MSG_NOT_SIDE
    /\ front_err = NoneStr

\* C11: in "any" mode camera validation passes iff the side check or the
\* front check accepts, and when both reject the surfaced message is the
\* front check's; every sequence with a computable median ratio passes, so
\* "any" mode rejects only with the too-few-frames or the
\* could-not-detect-body reason.
C11_AnyMode ==
    LET view == IF exercise_id \in DOMAIN EXERCISES THEN EXERCISES[exercise_id]
                ELSE "side"
        detected == SelectSeq(landmarks_seq, LAMBDA f : f # NoneFrame)
        rejected == pc = "returned" /\ stages = <<"lookup", "pose", "camera">>
    IN (view = "any" /\ camera_error # Unset) =>
        /\ rejected <=> ~(side_err = NoneStr \/ front_err = NoneStr)
        /\ rejected =>
              /\ classification.feedback[1].message = <<front_err>>
              /\ front_err \in
                    {"Too few frames with pose detected. Ensure your full body is visible and well-lit.",
                     "Could not detect body position. Ensure your full body is visible and well-lit."}
        /\ (Len(detected) >= 10 /\ spread_ratios(detected) # <<>>) => ~rejected

\* an any-view exercise filmed from the front: the side check rejected, the
\* front check accepted, and the run went on to feature extraction
C11_Witness ==
    /\ exercise_id = "overhead_press"
    /\ side_err = MSG_NOT_SIDE
    /\ front_err = NoneStr
    /\ camera_error = NoneStr
    /\ pc = "predict"

\* C12: for every landmark sequence and every permutation of its frames,
\* check_side_view returns the same verdict and message on both, and so
\* does check_front_view.
C12_PermutationInvariant ==
    pc = "validator_pair" =>
        /\ side_err # Unset => permuted_side_err = side_err
        /\ front_err # Unset => permuted_front_err = front_err

\* a frame of ratio 0 and a frame of ratio 1 exchanged across the middle of
\* ten frames whose median is one half: both orders are rejected as a side
\* view and accepted as a front view
C12_Witness ==
    /\ pc = "validator_pair"
    /\ Len(landmarks_seq) = 10
    /\ \A k \in 1..10 : landmarks_seq[k] # NoneFrame
    /\ permuted # landmarks_seq
    /\ frame_ratio(landmarks_seq[1]) = <<0, 32>>
    /\ frame_ratio(landmarks_seq[10]) = <<32, 32>>
    /\ frame_ratio(permuted[1]) = <<32, 32>>
    /\ frame_ratio(permuted[6]) = <<0, 32>>
    /\ side_err = MSG_NOT_SIDE
    /\ permuted_side_err = MSG_NOT_SIDE
    /\ front_err = NoneStr
    /\ permuted_front_err = NoneStr

\* C13: when every frame that enters the median (shoulders and hips with
\* confidence >= 0.5, nonzero torso height, among at least 10 non-absent
\* frames) has equal left and right shoulder x-coordinates, check_side_view
\* accepts and check_front_view rejects with the camera-angle message,
\* whatever the torso heights.
C13_ZeroSpread ==
    LET detected == SelectSeq(landmarks_seq, LAMBDA f : f # NoneFrame)
        counted(f) ==
            /\ \A i \in {LEFT_SHOULDER, RIGHT_SHOULDER, LEFT_HIP, RIGHT_HIP} :
                  f.at[i].visibility >= 50
            /\ f.at[LEFT_SHOULDER].y + f.at[RIGHT_SHOULDER].y
                  # f.at[LEFT_HIP].y + f.at[RIGHT_HIP].y
        entering == SelectSeq(detected, counted)
    IN (pc = "validator" /\ Len(detected) >= 10 /\ entering # <<>>
          /\ \A k \in 1..Len(entering) :
                entering[k].at[LEFT_SHOULDER].x = entering[k].at[RIGHT_SHOULDER].x) =>
        /\ side_err # Unset => side_err = NoneStr
        /\ front_err # Unset =>
              front_err = "Camera angle incorrect. Position the camera directly in front of you, facing your chest, at approximately shoulder height."

\* ten side-view frames of two torso heights (16/64 and 8/64), both checked
C13_Witness ==
    /\ pc = "validator"
    /\ Len(landmarks_seq) = 10
    /\ \A k \in 1..10 : landmarks_seq[k] # NoneFrame
    /\ frame_ratio(landmarks_seq[1]) = <<0, 32>>
    /\ frame_ratio(landmarks_seq[10]) = <<0, 16>>
    /\ side_err = NoneStr
    /\ front_err = MSG_NOT_FRONT

\* C14: _angle is symmetric in its outer points: _angle(a, b, c) and
\* _angle(c, b, a) are both absent, or both present and equal.
C14_AngleSymmetric ==
    pc = "angle_returned" => angle_pair[1] = angle_pair[2]

\* an angle of 45 degrees between two different outer points
C14_Witness ==
    /\ pc = "angle_returned"
    /\ points[1] # points[3]
    /\ angle_pair[1] = Deg(45)
    /\ angle_pair[2] = Deg(45)

\* C15: _angle(a, b, c) is absent whenever one of the three landmarks has a
\* confidence < 0.5, whatever the positions, and whenever b coincides with a
\* or with c; otherwise it is present.  A confidence of exactly 0.5 counts
\* as visible.
C15_AngleAbsence ==
    pc = "angle_returned" =>
        LET a == points[1]
            b == points[2]
            c == points[3]
            hidden == \E p \in {a, b, c} : p.visibility < 50
            degenerate == (a.x = b.x /\ a.y = b.y) \/ (c.x = b.x /\ c.y = b.y)
        IN /\ (angle_pair[1] = None) <=> (hidden \/ degenerate)
           /\ angle_pair[1] # None => angle_pair[1] \in 0..(4 * 180)

\* three landmarks of confidence exactly 0.5 give a right angle
C15_Witness ==
    /\ pc = "angle_returned"
    /\ \A i \in 1..3 : points[i].visibility = 50
    /\ angle_pair[1] = Deg(90)

\* C16: extract_sequence preserves the sequence over absences: the output
\* has the length of the input and output[i] is absent iff input[i] is
\* absent; a frame with no pose never causes an error (a call raises only
\* on a present array too short to hold the landmarks it reads).
C16_SequencePreserved ==
    /\ pc = "extract_sequence_returned" =>
           /\ Len(features_seq) = Len(landmarks_seq)
           /\ \A i \in 1..Len(landmarks_seq) :
                  (features_seq[i] = NoneFrame) <=> (landmarks_seq[i] = NoneFrame)
    /\ pc = "extract_sequence_raised" =>
           \E i \in 1..Len(landmarks_seq) :
               landmarks_seq[i] # NoneFrame /\ landmarks_seq[i].len < 33

\* a frame with no pose followed by a detected one
C16_Witness ==
    /\ pc = "extract_sequence_returned"
    /\ Len(landmarks_seq) = 2
    /\ landmarks_seq[1] = NoneFrame
    /\ landmarks_seq[2] = Poses[1]
    /\ features_seq[1] = NoneFrame
    /\ features_seq[2] = extract(Poses[1])

\* C17 (as claimed): extract raises, producing no FrameFeatures, on every
\* present landmark array whose length is not 33.
C17_RaisesOnEveryOtherLength ==
    (pc \in {"extract_returned", "extract_raised"} /\ frame_landmarks.len # 33) =>
        /\ pc = "extract_raised"
        /\ frame_features = IndexError

C19_Stateless ==
    pc = "concurrent" =>
        /\ registry = _CLASSIFIERS
        /\ instances = [c \in Classifiers |-> <<>>]
        /\ \A k \in 1..MaxCalls :
               calls[k].at = "done" =>
                   calls[k].result = predict(classifier, calls[k].features).result

\* two overlapping calls on one engine ended with different results
C19_Witness ==
    /\ pc = "concurrent"
    /\ calls[1].at = "done" /\ calls[2].at = "done"
    /\ calls[1].overlapped /\ calls[2].overlapped
    /\ calls[1].result.overall_score = "good"
    /\ calls[2].result.overall_score = "poor"

\* the statistics that fall back to all non-absent frames when their phase
\* predicate selects no frame (for the lateral raise and the upright row:
\* fewer frames than the phase needs to count as detected)
PhaseFallbacks ==
    LET frames == present(features_seq)
        All(get(_)) == not_none(Map(get, frames))
        None_selected(P(_)) == \A i \in 1..Len(frames) : ~P(frames[i])
        Selected(P(_)) == Cardinality({i \in 1..Len(frames) : P(frames[i])})
        med(s) == IF s = <<>> THEN None ELSE median(s)
        lo(s) == IF s = <<>> THEN None ELSE min(s)
        pct(s, k) == IF s = <<>> THEN None ELSE sorted(IntLE, s)[k + 1]
        back_over(f, m) == f.back_angle # None /\ f.back_angle > m
        shoulder_over(f, m) == _avg_shoulder(f) # None /\ _avg_shoulder(f) > m
        in_window(k) == k # None /\ Deg(45) <= k /\ k <= Deg(100)
        all_back == All(back_angle_of)
        all_shoulder == All(_avg_shoulder)
    IN /\ (classifier = "DeadliftClassifier"
           /\ None_selected(LAMBDA f : back_over(f, Deg(35)))) =>
              stats[1] = lo(SelectSeq(All(_avg_knee), LAMBDA k : k >= Deg(60)))
       /\ (classifier = "RomanianDeadliftClassifier"
           /\ None_selected(LAMBDA f : back_over(f, Deg(20)))) =>
              stats[2] = med(All(_avg_knee))
       /\ (classifier = "BarbellRowClassifier"
           /\ None_selected(LAMBDA f : back_over(f, Deg(30)))) =>
              stats[1] = med(all_back)
       /\ (classifier = "OverheadPressClassifier"
           /\ None_selected(LAMBDA f : shoulder_over(f, Deg(60)))) =>
              /\ stats[1] = med(All(elbow_flare_angle_3d_of))
              /\ stats[3] = med(All(back_lean_3d_of))
       /\ (classifier = "PushUpClassifier"
           /\ None_selected(LAMBDA f : _avg_elbow(f) # None /\ _avg_elbow(f) < Deg(150))) =>
              stats[1] = med(Map(push_up_deviation, All(_avg_hip)))
       /\ (classifier = "SquatClassifier"
           /\ None_selected(LAMBDA f : in_window(_avg_knee(f)))) =>
              stats[2] = pct(all_back, int_090(Len(all_back)))
       /\ (classifier = "LungeClassifier"
           /\ None_selected(LAMBDA f : in_window(lunge_deeper_knee(f)))) =>
              stats[2] = pct(all_back, int_090(Len(all_back)))
       /\ (classifier = "LateralRaiseClassifier"
           /\ Selected(LAMBDA f : shoulder_over(f, Deg(40))) < 10) =>
              stats[2] = med(All(back_lean_3d_of))
       /\ (classifier = "UprightRowClassifier"
           /\ Selected(LAMBDA f : shoulder_over(f, Deg(25))) < 5) =>
              /\ stats[1] = pct(all_shoulder, int_085(Len(all_shoulder)))
              /\ stats[3] = med(All(back_lean_3d_of))

\* C20: in every rule engine with a phase predicate, when the predicate
\* selects no frame the statistic is computed over all non-absent frames,
\* never over an empty phase subset -- except the elbow statistics of the
\* lateral raise (_raise_elbow) and of the upright row (_elbow_bend), which
\* are absent whenever their phase is not detected, whatever elbow angles
\* the frames carry.
C20_EmptyPhaseFallsBack ==
    (pc = "predict_returned" /\ present(features_seq) # <<>>) =>
        LET frames == present(features_seq)
            raised == {i \in 1..Len(frames) : /\ _avg_shoulder(frames[i]) # None
                                              /\ _avg_shoulder(frames[i]) > Deg(40)}
            pulled == {i \in 1..Len(frames) : /\ _avg_shoulder(frames[i]) # None
                                              /\ _avg_shoulder(frames[i]) > Deg(25)}
        IN /\ PhaseFallbacks
           /\ (classifier = "LateralRaiseClassifier" /\ Cardinality(raised) < 10) =>
                  stats[3] = None
           /\ (classifier = "UprightRowClassifier" /\ Cardinality(pulled) < 5) =>
                  stats[2] = None

\* an upright row with the arms never above the resting position: the peak
\* height comes from all frames, the elbow bend is absent although the
\* elbows were measured
C20_Witness ==
    /\ pc = "predict_returned"
    /\ classifier = "UprightRowClassifier"
    /\ Len(features_seq) = 1
    /\ features_seq[1] # NoneFrame
    /\ _avg_shoulder(features_seq[1]) = Deg(0)
    /\ _avg_elbow(features_seq[1]) = Deg(180)
    /\ stats = <<Deg(0), None, None>>

\* C20 as the claim states it: with an empty phase subset every statistic,
\* the two elbow statistics included, is the one over all non-absent frames.
C20_NeverAnEmptyWorkingSet ==
    (pc = "predict_returned" /\ present(features_seq) # <<>>) =>
        LET frames == present(features_seq)
            elbows == not_none(Map(_avg_elbow, frames))
            plausible == SelectSeq(elbows, LAMBDA e : e >= Deg(30))
            raised == {i \in 1..Len(frames) : /\ _avg_shoulder(frames[i]) # None
                                              /\ _avg_shoulder(frames[i]) > Deg(40)}
            pulled == {i \in 1..Len(frames) : /\ _avg_shoulder(frames[i]) # None
                                              /\ _avg_shoulder(frames[i]) > Deg(25)}
        IN /\ PhaseFallbacks
           /\ (classifier = "LateralRaiseClassifier" /\ Cardinality(raised) < 10) =>
                  stats[3] = IF elbows # <<>> /\ median(elbows) >= Deg(90)
                             THEN median(elbows) ELSE None
           /\ (classifier = "UprightRowClassifier" /\ Cardinality(pulled) < 5) =>
                  stats[2] = IF plausible # <<>> THEN min(plausible) ELSE None

\* C21: in the deadlift engine the lockout statistic is the minimum back
\* angle over the frames at and after the first index of the maximum back
\* angle; back angles before that index do not affect the lockout item.  A
\* sequence rising from 0 to 60 degrees and falling to 5 gives lockout 5 and
\* the item "ok".
C21_LockoutAfterPeak ==
    (pc = "predict_returned" /\ classifier = "DeadliftClassifier"
     /\ present(features_seq) # <<>>) =>
        LET frames == present(features_seq)
            measured == {i \in 1..Len(frames) : frames[i].back_angle # None}
            peak == CHOOSE i \in measured :
                        /\ \A j \in measured : frames[j].back_angle <= frames[i].back_angle
                        /\ \A j \in measured : j < i => frames[j].back_angle < frames[i].back_angle
            after == {frames[i].back_angle : i \in {j \in measured : j >= peak}}
            lockout == IF measured = {} THEN None
                       ELSE CHOOSE v \in after : \A w \in after : v <= w
            item == classification.feedback[2]
        IN /\ stats[2] = lockout
           /\ item.aspect = "lockout"
           /\ item.status = IF lockout = None THEN "error"
                            ELSE IF lockout <= 4 * 10 THEN "ok"
                            ELSE IF lockout <= 4 * 20 THEN "warning"
                            ELSE "error"

\* back angle 0, then 60, then 5: lockout 5 degrees, item "ok"
C21_Witness ==
    /\ pc = "predict_returned"
    /\ classifier = "DeadliftClassifier"
    /\ Len(features_seq) = 3
    /\ \A i \in 1..3 : features_seq[i] # NoneFrame
    /\ features_seq[1].back_angle = Deg(0)
    /\ features_seq[2].back_angle = Deg(60)
    /\ features_seq[3].back_angle = Deg(5)
    /\ stats[2] = Deg(5)
    /\ classification.feedback[2].status = "ok"

\* C22: in the lateral-raise engine, for every sequence with a present frame
\* in which the averaged shoulder angle never exceeds 40 degrees, the
\* elbow_position item is a "warning" with the "could not assess" message,
\* whatever elbow angles the frames carry; no elbow reading is reported.
C22_LowShouldersNoElbowReading ==
    (/\ pc = "predict_returned"
     /\ classifier = "LateralRaiseClassifier"
     /\ present(features_seq) # <<>>
     /\ \A i \in 1..Len(features_seq) :
            features_seq[i] # NoneFrame => _avg_shoulder(features_seq[i]) <= 4 * 40) =>
        /\ stats[3] = None
        /\ Len(classification.feedback) = 3
        /\ classification.feedback[3] =
               [aspect |-> "elbow_position", status |-> "warning",
                message |-> <<"Could not assess elbow angle from this camera angle. Position the camera directly in front of you for accurate elbow tracking.">>]

\* shoulders at exactly 40 degrees with elbows measured at 150 degrees
C22_Witness ==
    /\ pc = "predict_returned"
    /\ classifier = "LateralRaiseClassifier"
    /\ Len(features_seq) = 2
    /\ \A i \in 1..2 : /\ features_seq[i] # NoneFrame
                       /\ _avg_shoulder(features_seq[i]) = Deg(40)
                       /\ _avg_elbow(features_seq[i]) = Deg(150)
    /\ classification.feedback[3].status = "warning"
    /\ stats[3] = None

\* what the lateral-raise engine reports when the raise phase is detected
\* or not: the elbow statistic is the median elbow angle of the raised
\* frames (absent below 90 degrees) only when detected, and the body swing
\* is the median back lean of the raised frames when detected, of all
\* frames otherwise
LateralRaiseReports(detected) ==
    LET frames == present(features_seq)
        raised == SelectSeq(frames, LAMBDA f : _avg_shoulder(f) > 4 * 40)
        elbows == not_none(Map(_avg_elbow, raised))
        leans == not_none(Map(back_lean_3d_of, IF detected THEN raised ELSE frames))
    IN /\ stats[3] = IF detected /\ elbows # <<>> /\ median(elbows) >= 4 * 90
                     THEN median(elbows) ELSE None
       /\ stats[2] = IF leans # <<>> THEN median(leans) ELSE None

\* C26: in the lateral-raise engine the raise phase is detected iff the
\* number of present frames whose averaged shoulder angle exceeds 40
\* degrees is at least ten and at least 5% of the present frames; it is
\* undetected otherwise.
C26_RaisePhaseDetection ==
    (pc = "predict_returned" /\ classifier = "LateralRaiseClassifier"
     /\ present(features_seq) # <<>>) =>
        LET frames == present(features_seq)
            n == Len(SelectSeq(frames, LAMBDA f : _avg_shoulder(f) > 4 * 40))
        IN LateralRaiseReports(n >= 10 /\ n * 100 >= Len(frames) * 5)

\* ten raised frames among 200 present frames: exactly 5%, detected
C26_Witness ==
    /\ pc = "predict_returned"
    /\ classifier = "LateralRaiseClassifier"
    /\ Len(features_seq) = 200
    /\ Len(SelectSeq(features_seq, LAMBDA f : _avg_shoulder(f) > Deg(40))) = 10
    /\ stats[3] = Deg(150)
    /\ stats[2] = Deg(10)

\* C26 as the claim states it: detected iff the raised frames are at least
\* 5% of the present frames.
C26_DetectedAtFivePercent ==
    (pc = "predict_returned" /\ classifier = "LateralRaiseClassifier"
     /\ present(features_seq) # <<>>) =>
        LET frames == present(features_seq)
            n == Len(SelectSeq(frames, LAMBDA f : _avg_shoulder(f) > 4 * 40))
        IN LateralRaiseReports(n * 100 >= Len(frames) * 5)

\* C23: in the squat engine, whenever the minimum averaged knee angle
\* (ignoring values below 45 degrees) is at most 90 and the median back
\* angle over the frames with averaged knee angle in [45, 100] is at most
\* 50, the result is depth "ok", back_position "ok", overall "good", with
\* exactly those two items.
C23_SquatGood ==
    (pc = "predict_returned" /\ classifier = "SquatClassifier") =>
        LET frames == present(features_seq)
            knees == {_avg_knee(frames[i]) : i \in 1..Len(frames)}
            plausible == {k \in knees : k >= 4 * 45}
            window == SelectSeq(frames, LAMBDA f : /\ _avg_knee(f) >= 4 * 45
                                                   /\ _avg_knee(f) <= 4 * 100
                                                   /\ f.back_angle # None)
            backs == [i \in 1..Len(window) |-> window[i].back_angle]
        IN (/\ \E k \in plausible : k <= 4 * 90
            /\ backs # <<>>
            /\ median(backs) <= 4 * 50) =>
               /\ classification.overall_score = "good"
               /\ Len(classification.feedback) = 2
               /\ classification.feedback[1].aspect = "depth"
               /\ classification.feedback[1].status = "ok"
               /\ classification.feedback[2].aspect = "back_position"
               /\ classification.feedback[2].status = "ok"

\* the knees reach 85 degrees with the back at 30 degrees, between two
\* standing frames with the back at 70 degrees
C23_Witness ==
    /\ pc = "predict_returned"
    /\ classifier = "SquatClassifier"
    /\ Len(features_seq) = 3
    /\ features_seq[1] = BothSides(120, 170, 170, 10, 70, None, None)
    /\ features_seq[2] = BothSides(85, 170, 170, 10, 30, None, None)
    /\ features_seq[3] = BothSides(120, 170, 170, 10, 70, None, None)
    /\ stats = <<Deg(85), Deg(30)>>
    /\ classification.overall_score = "good"

\* the items of each engine, in order: the aspect, the measurement its
\* statistic is taken from, and every measurement the statistic reads (its
\* own and the ones that select its phase)
EngineAspects ==
    LET A(aspect, of, reads) == [aspect |-> aspect, of |-> of, reads |-> reads]
        squat == <<A("depth", "knee", {"knee"}),
                   A("back_position", "back", {"knee", "back"})>>
        bench == <<A("body_position", "back", {"back"}),
                   A("depth", "elbow", {"elbow"}),
                   A("lockout", "elbow", {"elbow"})>>
    IN [SquatClassifier |-> squat,
        LungeClassifier |-> squat,
        PushUpClassifier |-> <<A("body_alignment", "hip", {"elbow", "hip"}),
                               A("depth", "elbow", {"elbow"})>>,
        PullUpClassifier |-> <<A("range_of_motion", "elbow", {"elbow"}),
                               A("full_extension", "elbow", {"elbow"})>>,
        BenchPressClassifier |-> bench,
        InclineBenchPressClassifier |-> bench,
        OverheadPressClassifier |-> <<A("elbow_position", "flare", {"shoulder", "flare"}),
                                      A("lockout", "shoulder", {"shoulder"}),
                                      A("back_position", "lean", {"shoulder", "lean"})>>,
        LateralRaiseClassifier |-> <<A("arm_height", "shoulder", {"shoulder"}),
                                     A("body_swing", "lean", {"shoulder", "lean"}),
                                     A("elbow_position", "elbow", {"shoulder", "elbow"})>>,
        UprightRowClassifier |-> <<A("pull_height", "shoulder", {"shoulder"}),
                                   A("elbow_bend", "elbow", {"shoulder", "elbow"}),
                                   A("body_swing", "lean", {"shoulder", "lean"})>>,
        BarbellRowClassifier |-> <<A("back_position", "back", {"back"}),
                                   A("pull_rom", "elbow", {"elbow"})>>,
        DeadliftClassifier |-> <<A("setup", "knee", {"back", "knee"}),
                                 A("lockout", "back", {"back"})>>,
        RomanianDeadliftClassifier |-> <<A("hinge_depth", "back", {"back"}),
                                         A("knee_position", "knee", {"back", "knee"})>>]

\* both results hold one item per aspect of the engine, in the engine's order
OneItemPerAspect ==
    LET aspects == EngineAspects[classifier]
    IN \A fb \in {classification.feedback, calls[1].result.feedback} :
           /\ Len(fb) = Len(aspects)
           /\ \A i \in 1..Len(aspects) : fb[i].aspect = aspects[i].aspect

\* C24: with at least one present frame, every engine returns exactly one
\* item per aspect in a fixed order, and making a measurement absent in
\* every frame leaves unchanged the item (status and message) of every
\* aspect whose statistic does not read that measurement -- neither as its
\* own angle nor as the signal that selects its phase.
C24_FailureIsLocalized ==
    pc = "predict_compared" =>
        /\ OneItemPerAspect
        /\ \A m \in Measurements :
               calls[1].features = Without(features_seq, m) =>
                   \A i \in 1..Len(EngineAspects[classifier]) :
                       m \notin EngineAspects[classifier][i].reads =>
                           calls[1].result.feedback[i] = classification.feedback[i]

\* a barbell row with the back angle made absent: back_position turns from
\* "ok" into an error, pull_rom keeps its warning
C24_Witness ==
    /\ pc = "predict_compared"
    /\ classifier = "BarbellRowClassifier"
    /\ calls[1].features = Without(features_seq, "back")
    /\ classification.feedback[1].status = "ok"
    /\ calls[1].result.feedback[1].status = "error"
    /\ classification.feedback[2].status = "warning"
    /\ calls[1].result.feedback[2] = classification.feedback[2]

\* C24 as the claim states it: making absent the measurement one aspect's
\* statistic is taken from changes only the items of that measurement; the
\* item of every other aspect keeps its status and message.
C24_OnlyThatAspectChanges ==
    pc = "predict_compared" =>
        /\ OneItemPerAspect
        /\ \A m \in Measurements :
               calls[1].features = Without(features_seq, m) =>
                   \A i \in 1..Len(EngineAspects[classifier]) :
                       EngineAspects[classifier][i].of # m =>
                           calls[1].result.feedback[i] = classification.feedback[i]


\* the status a two-tier aspect must report for a measured statistic v:
\* towards == 1 when lower is better, -1 when higher is better
TierOf(v, good, warn, towards) ==
    IF towards * v <= towards * good THEN "ok"
    ELSE IF towards * v <= towards * warn THEN "warning"
    ELSE "error"

\* C25: threshold comparisons are non-strict at both boundaries. A measured
\* squat depth at most 90 degrees is "ok", at most 110 "warning", above 110
\* "error" (and so the squat back position with 50 and 65, the pull-up
\* range of motion with 90 and 120); a measured pull-up extension at least
\* 160 degrees is "ok", at least 140 "warning", below 140 "error".
C25_NonStrictBoundaries ==
    (pc = "predict_returned" /\ stats # <<>>) =>
        LET fb == classification.feedback
        IN /\ (classifier = "SquatClassifier" /\ stats[1] # None) =>
                  fb[1].status = TierOf(stats[1], 4 * 90, 4 * 110, 1)
           /\ (classifier = "SquatClassifier" /\ stats[2] # None) =>
                  fb[2].status = TierOf(stats[2], 4 * 50, 4 * 65, 1)
           /\ (classifier = "PullUpClassifier" /\ stats[1] # None) =>
                  fb[1].status = TierOf(stats[1], 4 * 90, 4 * 120, 1)
           /\ (classifier = "PullUpClassifier" /\ stats[2] # None) =>
                  fb[2].status = TierOf(stats[2], 4 * 160, 4 * 140, -1)

\* a pull-up whose elbows close to exactly 120 degrees and open to exactly
\* 140: both statistics sit on their warn boundary and both are warnings
C25_Witness ==
    /\ pc = "predict_returned"
    /\ classifier = "PullUpClassifier"
    /\ stats = <<Deg(120), Deg(140)>>
    /\ classification.feedback[1].status = "warning"
    /\ classification.feedback[2].status = "warning"
    /\ classification.overall_score = "needs_improvement"


\* every landmark of the frame carries the defaults wx = wy = wz = 0
NoWorldData(frame) ==
    \A i \in DOMAIN frame.at :
        frame.at[i].wx = 0 /\ frame.at[i].wy = 0 /\ frame.at[i].wz = 0

\* the same frame with its world coordinates set to the defaults
ZeroWorld(frame) ==
    LandmarkList(frame.len,
        [i \in DOMAIN frame.at |->
            InWorld(frame.at[i], <<0, 0, 0>>, frame.at[i].visibility)])

\* the nine image-plane angles of a FrameFeatures record
Angles2D(f) ==
    <<f.knee_angle_left, f.knee_angle_right, f.hip_angle_left, f.hip_angle_right,
      f.elbow_angle_left, f.elbow_angle_right, f.shoulder_angle_left,
      f.shoulder_angle_right, f.back_angle>>

\* what extract's 3D measures may depend on: one side's flare has no reading
\* when a landmark is under the confidence threshold or the listed world
\* coordinates of elbow and shoulder agree; the lean has none when a shoulder
\* or hip is under the threshold or the listed coordinates of the two
\* midpoints agree
Measures3DAbsentWhen(flare_axes, lean_axes) ==
    LET at == frame_landmarks.at
        W(l) == [x |-> l.wx, y |-> l.wy, z |-> l.wz]
        low(l) == l.visibility < 50
        no_flare(sh, el) ==
            low(at[sh]) \/ low(at[el])
            \/ \A a \in flare_axes : W(at[el])[a] = W(at[sh])[a]
        no_lean ==
            \/ \E i \in {LEFT_SHOULDER, RIGHT_SHOULDER, LEFT_HIP, RIGHT_HIP} : low(at[i])
            \/ \A a \in lean_axes :
                   W(at[LEFT_HIP])[a] + W(at[RIGHT_HIP])[a]
                       = W(at[LEFT_SHOULDER])[a] + W(at[RIGHT_SHOULDER])[a]
    IN /\ frame_features.elbow_flare_angle_3d = None
              <=> (no_flare(LEFT_SHOULDER, LEFT_ELBOW) /\ no_flare(RIGHT_SHOULDER, RIGHT_ELBOW))
       /\ frame_features.back_lean_3d = None <=> no_lean

C28_MeasuresInRange ==
    pc = "extract_returned" =>
        /\ \A i \in 1..9 :
               Angles2D(frame_features)[i] # None =>
                   (0 <= Angles2D(frame_features)[i] /\ Angles2D(frame_features)[i] <= Deg(180))
        /\ \A v \in {frame_features.elbow_flare_angle_3d, frame_features.back_lean_3d} :
               v # None => (0 <= v /\ v <= Deg(90))

\* the part of C28 that holds: the 2D angles and the elbow flare stay in
\* their ranges, and the back lean stays in [0, 180]
C28_RangesOfTheCode ==
    pc = "extract_returned" =>
        /\ \A i \in 1..9 :
               Angles2D(frame_features)[i] # None =>
                   (0 <= Angles2D(frame_features)[i] /\ Angles2D(frame_features)[i] <= Deg(180))
        /\ frame_features.elbow_flare_angle_3d # None =>
               (0 <= frame_features.elbow_flare_angle_3d
                /\ frame_features.elbow_flare_angle_3d <= Deg(90))
        /\ frame_features.back_lean_3d # None =>
               (0 <= frame_features.back_lean_3d /\ frame_features.back_lean_3d <= Deg(180))

\* the hip midpoint 16 units from the shoulder midpoint along negative wy,
\* all landmarks confident: the back lean is 180 degrees
C28_LeanBeyondRange ==
    /\ pc = "extract_returned"
    /\ frame_landmarks.at[LEFT_HIP].wy - frame_landmarks.at[LEFT_SHOULDER].wy = -16
    /\ frame_landmarks.at[LEFT_HIP].wz = frame_landmarks.at[LEFT_SHOULDER].wz
    /\ frame_features.back_lean_3d = Deg(180)


\* the plausibility floor of each min/max statistic, by engine and position
\* in the engine's statistics; `claimed` adds the elbow statistics the code
\* takes without a floor
FlooredStatistics(claimed) ==
    {<<"SquatClassifier", 1, 45>>, <<"LungeClassifier", 1, 45>>,
     <<"DeadliftClassifier", 1, 60>>, <<"PullUpClassifier", 1, 45>>,
     <<"BenchPressClassifier", 2, 30>>, <<"BenchPressClassifier", 3, 30>>,
     <<"InclineBenchPressClassifier", 2, 30>>, <<"InclineBenchPressClassifier", 3, 30>>,
     <<"BarbellRowClassifier", 2, 30>>, <<"UprightRowClassifier", 2, 30>>}
    \cup (IF claimed
          THEN {<<"PushUpClassifier", 2, 30>>, <<"PullUpClassifier", 2, 45>>}
          ELSE {})

\* every listed statistic of the returned result is absent or at its floor
\* or above
StatisticsAtOrAboveFloor(floored) ==
    (pc = "predict_returned" /\ stats # <<>>) =>
        \A s \in floored :
            classifier = s[1] =>
                (stats[s[2]] = None \/ stats[s[2]] = Raise \/ stats[s[2]] >= Deg(s[3]))

\* C29 as stated: a value below the plausibility floor never determines a
\* minimum or maximum statistic -- squat depth (knee >= 45), deadlift setup
\* (knee >= 60), and the elbow minimum and maximum of push-up, pull-up,
\* bench, incline bench, barbell row and upright row; a statistic whose
\* values are all below the floor is absent.
C29_FloorsOnEveryStatistic == StatisticsAtOrAboveFloor(FlooredStatistics(TRUE))

\* the statistics the code does take over values at or above a floor
C29_FloorsOfTheCode == StatisticsAtOrAboveFloor(FlooredStatistics(FALSE))

\* a push-up whose only elbow reading is the 20-degree artifact: it is the
\* minimum, and the depth is reported as good
C29_ArtifactSetsPushUpDepth ==
    /\ pc = "predict_returned"
    /\ classifier = "PushUpClassifier"
    /\ Len(stats) = 2
    /\ stats[2] = Deg(20)
    /\ classification.feedback[2].aspect = "depth"
    /\ classification.feedback[2].status = "ok"

\* a pull-up whose only elbow reading is the 20-degree artifact: the minimum
\* is absent and the maximum is the artifact
C29_ArtifactSetsPullUpExtension ==
    /\ pc = "predict_returned"
    /\ classifier = "PullUpClassifier"
    /\ stats = <<None, Deg(20)>>
    /\ classification.feedback[2].status = "error"


\* the request is over: a response or an error went back to the client
HandlerExited == pc \in {"http_200", "http_400_exercise", "http_400_suffix", "http_500"}

\* C30 as stated: once the upload has been copied to the temporary file
\* (tmp_path is assigned), the file is eventually removed and is gone at
\* every exit of the request, whether analyze returns or raises; a request
\* rejected for its exercise id or its extension has created no temporary
\* file and has not called analyze.
C30_TempFileRemovedOnEveryExit ==
    /\ (tmp_path # NoPath) ~> (tmp_path \notin files)
    /\ []((HandlerExited /\ tmp_path # NoPath) => tmp_path \notin files)
    /\ [](pc \in {"http_400_exercise", "http_400_suffix"} =>
              (files = {} /\ tmp_path = NoPath /\ stages = <<>>))

\* the part of C30 that holds: every exit reached through the try block
\* has removed the file, and rejected requests create none and call nothing
C30_RemovedOnceAnalyzeIsCalled ==
    /\ (HandlerExited /\ stages # <<>>) => files = {}
    /\ pc \in {"http_400_exercise", "http_400_suffix"} =>
           (files = {} /\ tmp_path = NoPath /\ stages = <<>>)

\* analyze raised (the video could not be opened) and the file is gone
C30_RemovedAfterRaise ==
    /\ pc = "http_500"
    /\ stages = <<"lookup", "pose">>
    /\ tmp_path # NoPath
    /\ files = {}

\* the directory could not be created: the request ends with the copied
\* file still on disk and analyze never called
C30_FileLeftWhenMkdirFails ==
    /\ pc = "http_500"
    /\ tmp_path # NoPath
    /\ tmp_path \in files
    /\ stages = <<>>

=============================================================================
